---- MODULE Spec2Model ----
(***************************************************************************)
(* Credit ledger and entitlement engine of scanpilot.                      *)
(*                                                                         *)
(* The store holds one Subscription row per user and the append-only       *)
(* CreditTransaction ledger.  Every request handler runs in its own        *)
(* SQLAlchemy session: it SELECTs the row (no FOR UPDATE), changes the     *)
(* loaded object in memory and then calls db.commit(), which flushes an    *)
(* UPDATE of the columns whose value changed, INSERTs the pending ledger   *)
(* rows and commits, all in one database transaction.  A handler is        *)
(* therefore two steps here: its read (up to the commit) and its commit.   *)
(***************************************************************************)
EXTENDS Integers, Sequences, FiniteSets, TLC

VARIABLES subs, ledger, pc, tx, response, opening, referrals, costs,
          documents, uploads, collaborators

vars == <<subs, ledger, pc, tx, response, opening, referrals, costs,
          documents, uploads, collaborators>>

(***************************************************************************)
(* Bounds of the model.                                                    *)
(***************************************************************************)
MaxLedger == 2

Users == {"u1", "u2"}

Procs == {"p1", "p2"}

NoId == "none"

(***************************************************************************)
(* Plan catalog.  The rows are seeded by a migration; free 20 and pro 500   *)
(* are the allowances the specification names and -1 marks the unlimited   *)
(* plan.  No allowance is given for team: 2000 stands for one above its    *)
(* rollover limit.                                                         *)
(***************************************************************************)
PlanNames == {"free", "pro", "team", "enterprise"}

CreditsPerMonth(plan) ==
    CASE plan = "free" -> 20
      [] plan = "pro" -> 500
      [] plan = "team" -> 2000
      [] plan = "enterprise" -> -1

(* Costs a CreditCost row can hold (CreditCostUpdate: cost >= 0). *)
Costs == {0, 5, 25}

(* Amounts an admin grant can carry (amount: int, not validated). *)
GrantAmounts == {-30, 50}

(***************************************************************************)
(* Gateway objects.  An event is identified by the id of the object it     *)
(* carries; a redelivery carries the same payload.                         *)
(***************************************************************************)
Sessions ==
    { [id |-> "cs_1", user |-> "u1", plan |-> "pro", mode |-> "subscription",
       customer |-> "cus_1", subscription |-> "sub_1"],
      [id |-> "cs_2", user |-> "u1", plan |-> "enterprise", mode |-> "subscription",
       customer |-> "cus_1", subscription |-> "sub_2"] }

Invoices ==
    { [id |-> "in_1", customer |-> "cus_1", subscription |-> "sub_1"] }

SubscriptionObjects ==
    { [id |-> "sub_1", customer |-> "cus_1"] }

(* customer.subscription.updated payloads; the gateway's status strings    *)
(* include trialing.                                                       *)
SubscriptionUpdates ==
    { [id |-> "sub_1", customer |-> "cus_1", status |-> st, cancel_at_period_end |-> c] :
        st \in {"active", "past_due", "trialing"}, c \in BOOLEAN }

PaymentIntents ==
    { [id |-> "pi_1", customer |-> "cus_1", type |-> "credit_purchase", credits |-> 50] }

(***************************************************************************)
(* Rows.                                                                   *)
(***************************************************************************)
Row(plan, status, rem, roll, cust, ssid) ==
    [plan |-> plan, status |-> status, credits_remaining |-> rem,
     credits_rollover |-> roll, stripe_customer_id |-> cust,
     stripe_subscription_id |-> ssid]

(* The user has no Subscription row. *)
NoRow == Row(NoId, NoId, 0, 0, NoId, NoId)

Entry(u, amount, type, key) ==
    [user |-> u, amount |-> amount, type |-> type, key |-> key]

Total(row) == row.credits_remaining + row.credits_rollover

NoTx == [kind |-> "none"]

(* An open session: the row it loaded, the row as changed in memory, the   *)
(* ledger rows added to it, and the id of the gateway object it handles.  *)
Tx(kind, u, key, loaded, local, entries) ==
    [kind |-> kind, user |-> u, key |-> key,
     loaded |-> loaded, local |-> local, entries |-> entries]

Done(t) == [status |-> "ok", kind |-> t.kind, key |-> t.key]

NoResponse == [status |-> "none"]

Min(a, b) == IF a <= b THEN a ELSE b

Max(a, b) == IF a >= b THEN a ELSE b

RECURSIVE SumAmounts(_)
SumAmounts(s) == IF s = <<>> THEN 0 ELSE Head(s).amount + SumAmounts(Tail(s))

LedgerOf(u) == SelectSeq(ledger, LAMBDA e : e.user = u)

UsageOf(u) == SelectSeq(ledger, LAMBDA e : e.user = u /\ e.type = "usage")

(* Ledger rows still pending in open sessions. *)
RECURSIVE PendingIn(_)
PendingIn(S) ==
    IF S = {} THEN 0
    ELSE LET p == CHOOSE q \in S : TRUE
         IN (IF pc[p] = "loaded" THEN Len(tx[p].entries) ELSE 0) + PendingIn(S \ {p})

Room(n) == Len(ledger) + PendingIn(Procs) + n <= MaxLedger

(***************************************************************************)
(* Referral rows (models.py).  A code is the sequence of its characters,   *)
(* so that str.upper() is computed on it.  The row whose referee_id is     *)
(* empty is the referrer's own code row.                                   *)
(***************************************************************************)
Referral(referrer, referee, code, status) ==
    [referrer_id |-> referrer, referee_id |-> referee,
     referral_code |-> code, status |-> status]

UpperChar(ch) ==
    CASE ch = "a" -> "A"
      [] ch = "b" -> "B"
      [] ch = "z" -> "Z"
      [] OTHER -> ch

Upper(code) == [i \in DOMAIN code |-> UpperChar(code[i])]

(* Codes a redeem request can carry: the code of u1 as generated, in lower *)
(* case and in mixed case, the code of u2 in lower case, and a code nobody *)
(* holds.                                                                  *)
SubmittedCodes ==
    { <<"A", "B", "1">>, <<"a", "b", "1">>, <<"a", "B", "1">>,
      <<"z", "z", "9">>, <<"Q", "Q", "0">> }

InitReferrals ==
    << Referral("u1", NoId, <<"A", "B", "1">>, "pending"),
       Referral("u2", NoId, <<"Z", "Z", "9">>, "pending") >>

RefereeBonus == 50

ReferrerBonus == 500

(***************************************************************************)
(* CreditCost rows (models.py): one row per operation type at most.        *)
(***************************************************************************)
Operations == {"file_processing", "document_creation", "ai_suggestion"}

CreditCost(op, cost, active) ==
    [operation_type |-> op, cost |-> cost, is_active |-> active]

(* No row was seeded for ai_suggestion. *)
InitCosts ==
    { CreditCost("file_processing", 5, TRUE),
      CreditCost("document_creation", 25, TRUE) }

(***************************************************************************)
(* Initial store: rows the program reaches.                                *)
(*   fresh free user; free user after a deleted pro subscription that had  *)
(*   rollover; pro user after a renewal.                                   *)
(***************************************************************************)
InitRows ==
    { Row("free", "active", 20, 0, NoId, NoId),
      Row("free", "active", 20, 5, "cus_1", NoId),
      Row("pro", "active", 500, 80, "cus_1", "sub_1") }

Init ==
    /\ \E r \in InitRows :
         subs = [u \in Users |-> IF u = "u1" THEN r
                                 ELSE Row("free", "active", 20, 0, NoId, NoId)]
    /\ ledger = <<>>
    /\ pc = [p \in Procs |-> "idle"]
    /\ tx = [p \in Procs |-> NoTx]
    /\ response = NoResponse
    /\ opening = [u \in Users |-> Total(subs[u])]
    /\ referrals = InitReferrals
    /\ costs = InitCosts
    /\ documents = << >>
    /\ uploads = << >>
    /\ collaborators = {}

(***************************************************************************)
(* consume_credits (api/credits.py)                                        *)
(***************************************************************************)
(* Deduction that takes the whole amount from the rollover column. *)
DeductUnclamped(row, amount) ==
    [row EXCEPT !.credits_rollover = @ - amount]

(* Deduction that spends the period allowance before the rollover. *)
DeductRemainingFirst(row, amount) ==
    IF row.credits_remaining >= amount
    THEN [row EXCEPT !.credits_remaining = @ - amount]
    ELSE [row EXCEPT !.credits_remaining = 0,
                     !.credits_rollover = @ - (amount - row.credits_remaining)]

Deduct(row, amount) ==
    IF row.credits_rollover >= amount
    THEN [row EXCEPT !.credits_rollover = @ - amount]
    ELSE [row EXCEPT !.credits_rollover = 0,
                     !.credits_remaining = @ - (amount - row.credits_rollover)]

Insufficient(u, amount, row) ==
    [status |-> "insufficient", user |-> u, required |-> amount, available |-> Total(row)]

(* A consume that forgets db.add(transaction). *)
ConsumeTxNoEntry(u, row, amount) ==
    Tx("consume", u, NoId, row, Deduct(row, amount), << >>)

ConsumeTx(u, row, amount) ==
    Tx("consume", u, NoId, row, Deduct(row, amount), << Entry(u, -amount, "usage", NoId) >>)

(* A rejection raised after the deduction was flushed. *)
ConsumeRejectedAfterDeduct(p, u, amount) ==
    /\ pc[p] = "idle"
    /\ Total(subs[u]) < amount
    /\ subs' = [subs EXCEPT ![u] = Deduct(@, amount)]
    /\ response' = Insufficient(u, amount, subs[u])
    /\ UNCHANGED <<ledger, pc, tx, opening, referrals, costs, documents, uploads, collaborators>>

ConsumeRejected(p, u, amount) ==
    /\ pc[p] = "idle"
    /\ Total(subs[u]) < amount
    /\ response' = Insufficient(u, amount, subs[u])
    /\ UNCHANGED <<subs, ledger, pc, tx, opening, referrals, costs, documents, uploads, collaborators>>

ConsumeBegin(p, u, amount) ==
    /\ pc[p] = "idle"
    /\ ~(Total(subs[u]) < amount)
    /\ Room(1)
    /\ tx' = [tx EXCEPT ![p] = ConsumeTx(u, subs[u], amount)]
    /\ pc' = [pc EXCEPT ![p] = "loaded"]
    /\ UNCHANGED <<subs, ledger, response, opening, referrals, costs, documents, uploads, collaborators>>

(***************************************************************************)
(* db.commit(): the unit of work writes the columns whose value differs    *)
(* from the loaded one and inserts the pending ledger rows.                *)
(***************************************************************************)
Flush(current, loaded, local) ==
    [f \in DOMAIN current |-> IF local[f] # loaded[f] THEN local[f] ELSE current[f]]

(* A commit that writes the new ledger rows in front of the stored ones. *)
CommitRewriting(p) ==
    /\ pc[p] = "loaded"
    /\ subs' = [subs EXCEPT ![tx[p].user] = Flush(@, tx[p].loaded, tx[p].local)]
    /\ ledger' = tx[p].entries \o ledger
    /\ pc' = [pc EXCEPT ![p] = "idle"]
    /\ tx' = [tx EXCEPT ![p] = NoTx]
    /\ response' = Done(tx[p])
    /\ UNCHANGED <<opening, referrals, costs, documents, uploads, collaborators>>

Commit(p) ==
    /\ pc[p] = "loaded"
    /\ subs' = [subs EXCEPT ![tx[p].user] = Flush(@, tx[p].loaded, tx[p].local)]
    /\ ledger' = ledger \o tx[p].entries
    /\ pc' = [pc EXCEPT ![p] = "idle"]
    /\ tx' = [tx EXCEPT ![p] = NoTx]
    /\ response' = Done(tx[p])
    /\ UNCHANGED <<opening, referrals, costs, documents, uploads, collaborators>>

(***************************************************************************)
(* grant_credits (api/admin.py)                                            *)
(***************************************************************************)
GrantTx(u, row, amount) ==
    Tx("grant", u, NoId, row, [row EXCEPT !.credits_remaining = @ + amount],
       << Entry(u, amount, "bonus", NoId) >>)

GrantBegin(p, u, amount) ==
    /\ pc[p] = "idle"
    /\ Room(1)
    /\ tx' = [tx EXCEPT ![p] = GrantTx(u, subs[u], amount)]
    /\ pc' = [pc EXCEPT ![p] = "loaded"]
    /\ UNCHANGED <<subs, ledger, response, opening, referrals, costs, documents, uploads, collaborators>>

(***************************************************************************)
(* Webhook handlers (api/webhooks.py).  A handler that finds no row        *)
(* returns without a commit.                                               *)
(***************************************************************************)
ByCustomer(db, c) == {u \in Users : db[u].stripe_customer_id = c}

BySubscription(db, s) == {u \in Users : db[u].stripe_subscription_id = s}

(* scalar_one_or_none(): the row, when exactly one matches. *)
One(S) == CHOOSE u \in S : TRUE

Ignored == [status |-> "ignored"]

Ignore(p) ==
    /\ pc[p] = "idle"
    /\ response' = Ignored
    /\ UNCHANGED <<subs, ledger, pc, tx, opening, referrals, costs, documents, uploads, collaborators>>

Begin(p, t) ==
    /\ pc[p] = "idle"
    /\ Room(Len(t.entries))
    /\ tx' = [tx EXCEPT ![p] = t]
    /\ pc' = [pc EXCEPT ![p] = "loaded"]
    /\ UNCHANGED <<subs, ledger, response, opening, referrals, costs, documents, uploads, collaborators>>

CheckoutTx(session, row) ==
    LET plan == session.plan
        A == CreditsPerMonth(plan)
    IN Tx("checkout", session.user, session.id, row,
          [row EXCEPT !.plan = plan,
                      !.status = "active",
                      !.stripe_customer_id = session.customer,
                      !.stripe_subscription_id = session.subscription,
                      !.credits_remaining = A],
          << Entry(session.user, A,
                   IF session.mode = "trial" THEN "trial" ELSE "purchase",
                   session.id) >>)

(* A handler that takes the user's row without testing that there is one. *)
handle_checkout_completed_unchecked(p, session) ==
    IF session.plan \in PlanNames
    THEN Begin(p, CheckoutTx(session, subs[session.user]))
    ELSE Ignore(p)

handle_checkout_completed(p, session) ==
    IF subs[session.user] # NoRow /\ session.plan \in PlanNames
    THEN Begin(p, CheckoutTx(session, subs[session.user]))
    ELSE Ignore(p)

SubscriptionCreatedTx(data, u, row) ==
    Tx("created", u, data.id, row,
       [row EXCEPT !.stripe_subscription_id = data.id, !.status = "active"],
       << >>)

handle_subscription_created(p, data) ==
    LET found == ByCustomer(subs, data.customer)
    IN IF Cardinality(found) = 1
       THEN Begin(p, SubscriptionCreatedTx(data, One(found), subs[One(found)]))
       ELSE Ignore(p)

SubscriptionDeletedTx(data, u, row) ==
    Tx("deleted", u, data.id, row,
       [row EXCEPT !.plan = "free",
                   !.status = "active",
                   !.stripe_subscription_id = NoId,
                   !.credits_remaining = CreditsPerMonth("free")],
       << >>)

(* customer.subscription.updated: the status of the event is stored as it  *)
(* comes, unless the event says cancel_at_period_end.                      *)
SubscriptionUpdatedTx(data, u, row) ==
    Tx("updated", u, data.id, row,
       [row EXCEPT !.status = IF data.cancel_at_period_end THEN "cancelled"
                              ELSE data.status],
       << >>)

handle_subscription_updated(p, data) ==
    LET found == BySubscription(subs, data.id)
    IN IF Cardinality(found) = 1
       THEN Begin(p, SubscriptionUpdatedTx(data, One(found), subs[One(found)]))
       ELSE Ignore(p)

handle_subscription_deleted(p, data) ==
    LET found == BySubscription(subs, data.id)
    IN IF Cardinality(found) = 1
       THEN Begin(p, SubscriptionDeletedTx(data, One(found), subs[One(found)]))
       ELSE Ignore(p)

RolloverLimit(plan) ==
    IF plan = "pro" THEN 100 ELSE IF plan = "team" THEN 500 ELSE 0

PaymentSucceededTx(invoice, u, row) ==
    LET A == CreditsPerMonth(row.plan)
        rolled == IF row.credits_remaining > 0
                  THEN Min(row.credits_remaining, RolloverLimit(row.plan))
                  ELSE row.credits_rollover
    IN Tx("renewal", u, invoice.id, row,
          [row EXCEPT !.credits_rollover = rolled, !.credits_remaining = A],
          << Entry(u, A, IF rolled > 0 THEN "rollover" ELSE "purchase", invoice.id) >>)

handle_payment_succeeded(p, invoice) ==
    LET found == BySubscription(subs, invoice.subscription)
    IN IF invoice.subscription # NoId /\ Cardinality(found) = 1
       THEN Begin(p, PaymentSucceededTx(invoice, One(found), subs[One(found)]))
       ELSE Ignore(p)

(* A handler that also takes the plan allowance back. *)
PaymentFailedTxResetting(invoice, u, row) ==
    Tx("failed", u, invoice.id, row,
       [row EXCEPT !.status = "past_due", !.credits_remaining = 0], << >>)

PaymentFailedTx(invoice, u, row) ==
    Tx("failed", u, invoice.id, row, [row EXCEPT !.status = "past_due"], << >>)

handle_payment_failed(p, invoice) ==
    LET found == BySubscription(subs, invoice.subscription)
    IN IF invoice.subscription # NoId /\ Cardinality(found) = 1
       THEN Begin(p, PaymentFailedTx(invoice, One(found), subs[One(found)]))
       ELSE Ignore(p)

PaymentIntentTx(intent, u, row) ==
    Tx("pack", u, intent.id, row,
       [row EXCEPT !.credits_remaining = @ + intent.credits],
       << Entry(u, intent.credits, "purchase", intent.id) >>)

handle_payment_intent_succeeded(p, intent) ==
    LET found == ByCustomer(subs, intent.customer)
    IN IF intent.type = "credit_purchase" /\ Cardinality(found) = 1
       THEN Begin(p, PaymentIntentTx(intent, One(found), subs[One(found)]))
       ELSE Ignore(p)

(***************************************************************************)
(* cancel_subscription (api/subscriptions.py)                              *)
(***************************************************************************)
CancelTx(u, row, immediate) ==
    IF immediate
    THEN Tx("cancel", u, NoId, row,
            [row EXCEPT !.plan = "free",
                        !.status = "active",
                        !.stripe_subscription_id = NoId,
                        !.credits_remaining = CreditsPerMonth("free")],
            << >>)
    ELSE Tx("cancel", u, NoId, row, [row EXCEPT !.status = "cancelled"], << >>)

AlreadyFree(p) ==
    /\ pc[p] = "idle"
    /\ response' = [status |-> "already_free"]
    /\ UNCHANGED <<subs, ledger, pc, tx, opening, referrals, costs, documents, uploads, collaborators>>

(* downgrade_subscription: schedules the downgrade, the row keeps its plan *)
DowngradeTx(u, row) ==
    Tx("downgrade", u, NoId, row, [row EXCEPT !.status = "cancelled"], << >>)

downgrade_subscription(p, u) ==
    IF subs[u].plan = "free"
    THEN AlreadyFree(p)
    ELSE Begin(p, DowngradeTx(u, subs[u]))

cancel_subscription(p, u, immediate) ==
    IF subs[u].plan = "free"
    THEN AlreadyFree(p)
    ELSE Begin(p, CancelTx(u, subs[u], immediate))

(***************************************************************************)
(* apply_referral_code (api/referrals.py).  The request reads the code     *)
(* row, the redeemer's referee row and both Subscription rows, builds the  *)
(* new Referral row and the bonuses in its session, and commits once.      *)
(***************************************************************************)
ByCode(tbl, code) == {i \in DOMAIN tbl : tbl[i].referral_code = code}

ByReferee(tbl, u) == {i \in DOMAIN tbl : tbl[i].referee_id = u}

(* A lookup that compares the code as it was submitted. *)
FindByCodeExact(tbl, code) == ByCode(tbl, code)

FindByCode(tbl, code) == ByCode(tbl, Upper(code))

RedeemResponse(status, u, code) == [status |-> status, user |-> u, code |-> code]

RedeemReject(p, status, u, code) ==
    /\ pc[p] = "idle"
    /\ response' = RedeemResponse(status, u, code)
    /\ UNCHANGED <<subs, ledger, pc, tx, opening, referrals, costs, documents, uploads, collaborators>>

RedeemTx(u, code, i) ==
    LET a == referrals[i].referrer_id
        hasReferee == subs[u] # NoRow
        hasReferrer == subs[a] # NoRow
    IN [kind |-> "redeem", user |-> u, key |-> code, referral |-> i, referrer |-> a,
        loaded |-> [referee |-> subs[u], referrer |-> subs[a]],
        local |-> [referee |-> IF hasReferee
                               THEN [subs[u] EXCEPT !.credits_remaining = @ + RefereeBonus]
                               ELSE NoRow,
                   referrer |-> IF hasReferrer
                                THEN [subs[a] EXCEPT !.credits_remaining = @ + ReferrerBonus]
                                ELSE NoRow],
        rewarded |-> hasReferrer,
        new_referral |-> Referral(a, u, Upper(code),
                                  IF hasReferrer THEN "rewarded" ELSE "completed"),
        entries |-> (IF hasReferee
                     THEN << Entry(u, RefereeBonus, "bonus", "referee_bonus") >>
                     ELSE << >>)
                    \o (IF hasReferrer
                        THEN << Entry(a, ReferrerBonus, "bonus", "referrer_bonus") >>
                        ELSE << >>)]

RedeemBegin(p, t) ==
    /\ pc[p] = "idle"
    /\ Len(ledger) + Len(t.entries) <= MaxLedger
    /\ tx' = [tx EXCEPT ![p] = t]
    /\ pc' = [pc EXCEPT ![p] = "redeeming"]
    /\ UNCHANGED <<subs, ledger, response, opening, referrals, costs, documents, uploads, collaborators>>

(* scalar_one_or_none() raises when more than one row matches. *)
apply_referral_code(p, u, code) ==
    LET found == FindByCode(referrals, code)
        existing == ByReferee(referrals, u)
    IN IF found = {}
       THEN RedeemReject(p, "not_found", u, code)
       ELSE IF Cardinality(found) > 1
       THEN RedeemReject(p, "multiple_rows", u, code)
       ELSE IF referrals[One(found)].referrer_id = u
       THEN RedeemReject(p, "self_referral", u, code)
       ELSE IF Cardinality(existing) > 1
       THEN RedeemReject(p, "multiple_rows", u, code)
       ELSE IF existing # {}
       THEN RedeemReject(p, "already_used", u, code)
       ELSE RedeemBegin(p, RedeemTx(u, code, One(found)))

(* A store whose referrals table has no unique index on referral_code. *)
UniqueViolationUnenforced(tbl, row) == FALSE

(* referral_code is declared unique=True. *)
UniqueViolation(tbl, row) == \E i \in DOMAIN tbl : tbl[i].referral_code = row.referral_code

(* A commit without a transaction around it: the INSERT of the Referral    *)
(* row fails alone, the UPDATEs and the ledger INSERTs stay.               *)
RedeemCommitPerStatement(p) ==
    /\ pc[p] = "redeeming"
    /\ LET t == tx[p]
       IN /\ referrals' = [referrals EXCEPT ![t.referral].status =
                              IF t.rewarded THEN "rewarded" ELSE @]
          /\ subs' = [u \in Users |->
                IF u = t.user /\ t.loaded.referee # NoRow
                THEN Flush(subs[u], t.loaded.referee, t.local.referee)
                ELSE IF u = t.referrer /\ t.loaded.referrer # NoRow
                THEN Flush(subs[u], t.loaded.referrer, t.local.referrer)
                ELSE subs[u]]
          /\ ledger' = ledger \o t.entries
          /\ response' = RedeemResponse("integrity_error", t.user, t.key)
    /\ pc' = [pc EXCEPT ![p] = "idle"]
    /\ tx' = [tx EXCEPT ![p] = NoTx]
    /\ UNCHANGED <<opening, costs, documents, uploads, collaborators>>

(* db.commit() of the redeem: the INSERT of the new Referral row, the      *)
(* UPDATEs of the two Subscription rows and of the code row, and the       *)
(* INSERTs of the ledger rows are one database transaction; an             *)
(* IntegrityError rolls all of it back.                                    *)
RedeemCommit(p) ==
    /\ pc[p] = "redeeming"
    /\ LET t == tx[p]
       IN IF UniqueViolation(referrals, t.new_referral)
          THEN /\ response' = RedeemResponse("integrity_error", t.user, t.key)
               /\ UNCHANGED <<subs, ledger, referrals>>
          ELSE /\ referrals' =
                     Append([referrals EXCEPT ![t.referral].status =
                                IF t.rewarded THEN "rewarded" ELSE @],
                            t.new_referral)
               /\ subs' = [u \in Users |->
                     IF u = t.user /\ t.loaded.referee # NoRow
                     THEN Flush(subs[u], t.loaded.referee, t.local.referee)
                     ELSE IF u = t.referrer /\ t.loaded.referrer # NoRow
                     THEN Flush(subs[u], t.loaded.referrer, t.local.referrer)
                     ELSE subs[u]]
               /\ ledger' = ledger \o t.entries
               /\ response' = RedeemResponse("ok", t.user, t.key)
    /\ pc' = [pc EXCEPT ![p] = "idle"]
    /\ tx' = [tx EXCEPT ![p] = NoTx]
    /\ UNCHANGED <<opening, costs, documents, uploads, collaborators>>

(***************************************************************************)
(* Metered operations (api/uploads.py, services/document_service.py): the  *)
(* caller looks the cost up with get_credit_cost and then calls            *)
(* consume_credits with it; the two are separate reads of the store.       *)
(***************************************************************************)
(* A lookup that does not filter on is_active. *)
AnyCost(tbl, op) == {r \in tbl : r.operation_type = op}

ActiveCost(tbl, op) == {r \in tbl : r.operation_type = op /\ r.is_active}

ConfigError(u, op) == [status |-> "config_error", user |-> u, operation |-> op]

Priced == Cardinality({q \in Procs : pc[q] = "priced"})

get_credit_cost(p, u, op) ==
    LET found == ActiveCost(costs, op)
    IN /\ pc[p] = "idle"
       /\ IF found = {}
          THEN /\ response' = ConfigError(u, op)
               /\ UNCHANGED <<subs, ledger, pc, tx, opening, referrals, costs, documents, uploads, collaborators>>
          ELSE /\ Room(1 + Priced)
               /\ tx' = [tx EXCEPT ![p] = [kind |-> "request", user |-> u,
                                           operation |-> op, amount |-> One(found).cost]]
               /\ pc' = [pc EXCEPT ![p] = "priced"]
               /\ UNCHANGED <<subs, ledger, response, opening, referrals, costs, documents, uploads, collaborators>>

(* consume_credits called with the cost that was looked up. *)
MeteredConsume(p) ==
    LET u == tx[p].user
        amount == tx[p].amount
    IN /\ pc[p] = "priced"
       /\ IF Total(subs[u]) < amount
          THEN /\ response' = Insufficient(u, amount, subs[u])
               /\ pc' = [pc EXCEPT ![p] = "idle"]
               /\ tx' = [tx EXCEPT ![p] = NoTx]
               /\ UNCHANGED <<subs, ledger, opening, referrals, costs, documents, uploads, collaborators>>
          ELSE /\ tx' = [tx EXCEPT ![p] = ConsumeTx(u, subs[u], amount)]
               /\ pc' = [pc EXCEPT ![p] = "loaded"]
               /\ UNCHANGED <<subs, ledger, response, opening, referrals, costs, documents, uploads, collaborators>>

(* update_credit_cost (api/admin.py): sets cost and is_active of the row   *)
(* of an operation type; 404 when there is none.                           *)
update_credit_cost(p, op, cost, active) ==
    LET found == {r \in costs : r.operation_type = op}
    IN /\ pc[p] = "idle"
       /\ IF found = {}
          THEN /\ response' = [status |-> "not_found", operation |-> op]
               /\ UNCHANGED costs
          ELSE /\ costs' = (costs \ found) \cup {CreditCost(op, cost, active)}
               /\ response' = [status |-> "ok", kind |-> "update_cost", key |-> op]
       /\ UNCHANGED <<subs, ledger, pc, tx, opening, referrals, documents, uploads, collaborators>>

(***************************************************************************)
(* Subscription lifecycle (api/subscriptions.py, api/credits.py).  No row  *)
(* is created at registration: get_my_subscription inserts the free row    *)
(* when it finds none, and the balance queries and consume_credits answer  *)
(* 404 without a row.  subs is keyed by user, as user_id is unique.        *)
(***************************************************************************)
FreeRow == Row("free", "active", CreditsPerMonth("free"), 0, NoId, NoId)

NotFound(u, endpoint) == [status |-> "not_found", user |-> u, endpoint |-> endpoint]

Balance(u, row) ==
    [status |-> "balance", user |-> u,
     credits_remaining |-> row.credits_remaining,
     credits_rollover |-> row.credits_rollover,
     total_credits |-> row.credits_remaining + row.credits_rollover,
     plan_credits_per_month |-> CreditsPerMonth(row.plan)]

(* GET /api/credits/balance and GET /api/subscriptions/credits. *)
get_balance(p, u) ==
    /\ pc[p] = "idle"
    /\ response' = IF subs[u] = NoRow THEN NotFound(u, "get_balance") ELSE Balance(u, subs[u])
    /\ UNCHANGED <<subs, ledger, pc, tx, opening, referrals, costs, documents, uploads, collaborators>>

SubscriptionResponse(u, row) == [status |-> "subscription", user |-> u, row |-> row]

get_my_subscription(p, u) ==
    /\ pc[p] = "idle"
    /\ IF subs[u] = NoRow
       THEN /\ tx' = [tx EXCEPT ![p] = [kind |-> "provision", user |-> u, new |-> FreeRow]]
            /\ pc' = [pc EXCEPT ![p] = "provisioning"]
            /\ UNCHANGED <<subs, ledger, response, opening, referrals, costs, documents, uploads, collaborators>>
       ELSE /\ response' = SubscriptionResponse(u, subs[u])
            /\ UNCHANGED <<subs, ledger, pc, tx, opening, referrals, costs, documents, uploads, collaborators>>

(* A subscriptions table without the unique index on user_id. *)
UserUniqueViolationUnenforced(db, u) == FALSE

(* user_id is declared unique=True. *)
UserUniqueViolation(db, u) == db[u] # NoRow

(* db.commit() of the auto-provision: the INSERT fails on the unique index *)
(* when another request has inserted the user's row meanwhile.             *)
ProvisionCommit(p) ==
    /\ pc[p] = "provisioning"
    /\ LET u == tx[p].user
       IN IF UserUniqueViolation(subs, u)
          THEN /\ response' = [status |-> "integrity_error", user |-> u, endpoint |-> "get_my_subscription"]
               /\ UNCHANGED subs
          ELSE /\ subs' = [subs EXCEPT ![u] = tx[p].new]
               /\ response' = [status |-> "subscription", user |-> u,
                               row |-> tx[p].new, created |-> TRUE]
    /\ pc' = [pc EXCEPT ![p] = "idle"]
    /\ tx' = [tx EXCEPT ![p] = NoTx]
    /\ UNCHANGED <<ledger, opening, referrals, costs, documents, uploads, collaborators>>

(* consume_credits of a user without a row: 404. *)
ConsumeNotFound(p, u) ==
    /\ pc[p] = "idle"
    /\ subs[u] = NoRow
    /\ response' = NotFound(u, "consume_credits")
    /\ UNCHANGED <<subs, ledger, pc, tx, opening, referrals, costs, documents, uploads, collaborators>>

consume_credits(p, u, amount) ==
    IF subs[u] = NoRow
    THEN ConsumeNotFound(p, u)
    ELSE ConsumeRejected(p, u, amount) \/ ConsumeBegin(p, u, amount)

(***************************************************************************)
(* Specifications.                                                         *)
(***************************************************************************)
Consume(P, U) ==
    \E p \in P, u \in U, c \in Costs :
        \/ ConsumeRejected(p, u, c)
        \/ ConsumeBegin(p, u, c)

CommitAny == \E p \in Procs : Commit(p)

Grant(P, U) == \E p \in P, u \in U, a \in GrantAmounts : GrantBegin(p, u, a)

Checkout(P) == \E p \in P, s \in Sessions : handle_checkout_completed(p, s)

Created(P) == \E p \in P, d \in SubscriptionObjects : handle_subscription_created(p, d)

Deleted(P) == \E p \in P, d \in SubscriptionObjects : handle_subscription_deleted(p, d)

Renewal(P) == \E p \in P, i \in Invoices : handle_payment_succeeded(p, i)

Failed(P) == \E p \in P, i \in Invoices : handle_payment_failed(p, i)

Pack(P) == \E p \in P, i \in PaymentIntents : handle_payment_intent_succeeded(p, i)

Cancel(P, U) == \E p \in P, u \in U, b \in BOOLEAN : cancel_subscription(p, u, b)

(* Concurrent consume requests. *)
NextConsume == Consume(Procs, Users) \/ CommitAny

SpecConsume == Init /\ [][NextConsume]_vars

(* Every operation on one subscription; consume requests may overlap the *)
(* other handlers.                                                        *)
Next ==
    \/ Consume(Procs, {"u1"})
    \/ Grant({"p1"}, {"u1"})
    \/ Checkout({"p1"})
    \/ Created({"p1"})
    \/ Deleted({"p1"})
    \/ Renewal({"p1"})
    \/ Failed({"p1"})
    \/ Pack({"p1"})
    \/ Cancel({"p1"}, {"u1"})
    \/ CommitAny

Spec == Init /\ [][Next]_vars

(***************************************************************************)
(* One paid signup and its renewals.  The store starts with a free user    *)
(* whose upgrade request has created the gateway customer, with the pro    *)
(* user right after the checkout, or with the pro user after a renewal.    *)
(* The events of the signup arrive in any order and any number of times;   *)
(* the user consumes meanwhile and an admin may take the allowance back.   *)
(***************************************************************************)
GatewayRows ==
    { Row("free", "active", 20, 0, "cus_1", NoId),
      Row("pro", "active", 500, 0, "cus_1", "sub_1"),
      Row("pro", "active", 500, 80, "cus_1", "sub_1") }

Clawback == -500

InitGateway ==
    /\ \E r \in GatewayRows :
         subs = [u \in Users |-> IF u = "u1" THEN r
                                 ELSE Row("free", "active", 20, 0, NoId, NoId)]
    /\ ledger = <<>>
    /\ pc = [p \in Procs |-> "idle"]
    /\ tx = [p \in Procs |-> NoTx]
    /\ response = NoResponse
    /\ opening = [u \in Users |-> Total(subs[u])]
    /\ referrals = InitReferrals
    /\ costs = InitCosts
    /\ documents = << >>
    /\ uploads = << >>
    /\ collaborators = {}

NextGateway ==
    \/ Checkout({"p1"})
    \/ Created({"p1"})
    \/ Renewal({"p1"})
    \/ Consume(Procs, {"u1"})
    \/ GrantBegin("p1", "u1", Clawback)
    \/ CommitAny

SpecGateway == InitGateway /\ [][NextGateway]_vars

(***************************************************************************)
(* Redeem requests of two users, overlapping in any way.  Either user may  *)
(* be without a Subscription row (none is created at registration).        *)
(***************************************************************************)
InitReferral ==
    /\ subs \in [Users -> {Row("free", "active", 20, 0, NoId, NoId), NoRow}]
    /\ ledger = <<>>
    /\ pc = [p \in Procs |-> "idle"]
    /\ tx = [p \in Procs |-> NoTx]
    /\ response = NoResponse
    /\ opening = [u \in Users |-> Total(subs[u])]
    /\ referrals = InitReferrals
    /\ costs = InitCosts
    /\ documents = << >>
    /\ uploads = << >>
    /\ collaborators = {}

Redeem(P, U) == \E p \in P, u \in U, c \in SubmittedCodes : apply_referral_code(p, u, c)

RedeemCommitAny == \E p \in Procs : RedeemCommit(p)

NextReferral == Redeem(Procs, Users) \/ RedeemCommitAny

SpecReferral == InitReferral /\ [][NextReferral]_vars

(***************************************************************************)
(* Metered operations of one user while an admin edits the cost table.     *)
(***************************************************************************)
Metered(P, U) == \E p \in P, u \in U, op \in Operations : get_credit_cost(p, u, op)

MeteredConsumeAny == \E p \in Procs : MeteredConsume(p)

UpdateCost(P) ==
    \E p \in P, op \in Operations, c \in Costs, a \in BOOLEAN :
        update_credit_cost(p, op, c, a)

NextMetered ==
    \/ Metered(Procs, {"u1"})
    \/ MeteredConsumeAny
    \/ UpdateCost({"p1"})
    \/ CommitAny

SpecMetered == Init /\ [][NextMetered]_vars

(***************************************************************************)
(* Users with and without a Subscription row: balance queries,             *)
(* subscription queries that provision the row, and consume calls,         *)
(* overlapping in any way.                                                 *)
(***************************************************************************)
InitProvision ==
    /\ subs \in [Users -> {FreeRow, NoRow}]
    /\ ledger = <<>>
    /\ pc = [p \in Procs |-> "idle"]
    /\ tx = [p \in Procs |-> NoTx]
    /\ response = NoResponse
    /\ opening = [u \in Users |-> Total(subs[u])]
    /\ referrals = InitReferrals
    /\ costs = InitCosts
    /\ documents = << >>
    /\ uploads = << >>
    /\ collaborators = {}

BalanceQuery(P, U) == \E p \in P, u \in U : get_balance(p, u)

SubscriptionQuery(P, U) == \E p \in P, u \in U : get_my_subscription(p, u)

ProvisionCommitAny == \E p \in Procs : ProvisionCommit(p)

ConsumeCall(P, U) == \E p \in P, u \in U, c \in Costs : consume_credits(p, u, c)

NextProvision ==
    \/ BalanceQuery(Procs, Users)
    \/ SubscriptionQuery(Procs, Users)
    \/ ProvisionCommitAny
    \/ ConsumeCall(Procs, Users)
    \/ CommitAny

SpecProvision == InitProvision /\ [][NextProvision]_vars

(***************************************************************************)
(* Gateway events of every recognized type, delivered to a store where the *)
(* user may have no row, a free row the gateway does not know, or the pro  *)
(* row bound to sub_1; the user consumes meanwhile.                        *)
(***************************************************************************)
LifecycleRows == {NoRow, FreeRow, Row("pro", "active", 500, 80, "cus_1", "sub_1")}

InitLifecycle ==
    /\ \E r \in LifecycleRows :
         subs = [u \in Users |-> IF u = "u1" THEN r ELSE FreeRow]
    /\ ledger = <<>>
    /\ pc = [p \in Procs |-> "idle"]
    /\ tx = [p \in Procs |-> NoTx]
    /\ response = NoResponse
    /\ opening = [u \in Users |-> Total(subs[u])]
    /\ referrals = InitReferrals
    /\ costs = InitCosts
    /\ documents = << >>
    /\ uploads = << >>
    /\ collaborators = {}

Updated(P) == \E p \in P, d \in SubscriptionUpdates : handle_subscription_updated(p, d)

NextLifecycle ==
    \/ Checkout({"p1"})
    \/ Created({"p1"})
    \/ Updated({"p1"})
    \/ Deleted({"p1"})
    \/ Renewal({"p1"})
    \/ Failed({"p1"})
    \/ Pack({"p1"})
    \/ ConsumeCall({"p2"}, {"u1"})
    \/ CommitAny

SpecLifecycle == InitLifecycle /\ [][NextLifecycle]_vars

(* The same events delivered after the subscription deleted event for      *)
(* sub_1 was applied to the pro row.                                       *)
InitAfterDeletion ==
    /\ subs = [u \in Users |-> IF u = "u1"
                               THEN Row("free", "active", CreditsPerMonth("free"), 80, "cus_1", NoId)
                               ELSE FreeRow]
    /\ ledger = <<>>
    /\ pc = [p \in Procs |-> "idle"]
    /\ tx = [p \in Procs |-> NoTx]
    /\ response = NoResponse
    /\ opening = [u \in Users |-> Total(subs[u])]
    /\ referrals = InitReferrals
    /\ costs = InitCosts
    /\ documents = << >>
    /\ uploads = << >>
    /\ collaborators = {}

SpecAfterDeletion == InitAfterDeletion /\ [][NextLifecycle]_vars

(***************************************************************************)
(* upgrade_subscription (api/subscriptions.py), purchase_credits           *)
(* (api/credits.py): the request reads the row, creates the gateway        *)
(* customer when the row has none and commits its id, then creates the     *)
(* checkout session or the payment intent.  Each gateway call may fail.    *)
(***************************************************************************)
NewCustomer(u) == IF u = "u1" THEN "cus_1" ELSE "cus_2"

SetupReject(p, u, endpoint, status) ==
    /\ pc[p] = "idle"
    /\ response' = [status |-> status, user |-> u, endpoint |-> endpoint]
    /\ UNCHANGED <<subs, ledger, pc, tx, opening, referrals, costs, documents, uploads, collaborators>>

SetupBegin(p, u, endpoint, target) ==
    /\ pc[p] = "idle"
    /\ tx' = [tx EXCEPT ![p] = Tx(endpoint, u, target, subs[u], subs[u], << >>)]
    /\ pc' = [pc EXCEPT ![p] = IF subs[u].stripe_customer_id = NoId
                               THEN "customer" ELSE "session"]
    /\ UNCHANGED <<subs, ledger, response, opening, referrals, costs, documents, uploads, collaborators>>

upgrade_subscription(p, u, plan) ==
    IF plan \notin PlanNames THEN SetupReject(p, u, "upgrade", "not_found")
    ELSE IF plan = "free" THEN SetupReject(p, u, "upgrade", "bad_request")
    ELSE IF subs[u] = NoRow THEN SetupReject(p, u, "upgrade", "not_found")
    ELSE IF subs[u].plan = plan THEN SetupReject(p, u, "upgrade", "bad_request")
    ELSE SetupBegin(p, u, "upgrade", plan)

purchase_credits(p, u) ==
    IF subs[u] = NoRow THEN SetupReject(p, u, "purchase", "not_found")
    ELSE SetupBegin(p, u, "purchase", "pack")

GatewayError(t, call) ==
    [status |-> "gateway_error", user |-> t.user, endpoint |-> t.kind, call |-> call]

(* A request that puts the user on the requested plan without waiting for  *)
(* the gateway.                                                            *)
CustomerCommitUpgrading(db, t) ==
    [db EXCEPT ![t.user].stripe_customer_id = NewCustomer(t.user),
               ![t.user].plan = IF t.kind = "upgrade" THEN t.key ELSE @]

(* subscription.stripe_customer_id = customer.id; await db.commit() *)
CustomerCommit(db, t) ==
    [db EXCEPT ![t.user].stripe_customer_id = NewCustomer(t.user)]

create_customer(p, ok) ==
    /\ pc[p] = "customer"
    /\ IF ok
       THEN /\ subs' = CustomerCommit(subs, tx[p])
            /\ pc' = [pc EXCEPT ![p] = "session"]
            /\ tx' = [tx EXCEPT ![p].local.stripe_customer_id = NewCustomer(tx[p].user)]
            /\ UNCHANGED response
       ELSE /\ response' = GatewayError(tx[p], "create_customer")
            /\ pc' = [pc EXCEPT ![p] = "idle"]
            /\ tx' = [tx EXCEPT ![p] = NoTx]
            /\ UNCHANGED subs
    /\ UNCHANGED <<ledger, opening, referrals, costs, documents, uploads, collaborators>>

(* create_checkout_session for an upgrade, create_payment_intent_for_credits *)
(* for a purchase.                                                           *)
create_session(p, ok) ==
    /\ pc[p] = "session"
    /\ response' = IF ok
                   THEN [status |-> "setup", user |-> tx[p].user, endpoint |-> tx[p].kind,
                         customer |-> tx[p].local.stripe_customer_id]
                   ELSE GatewayError(tx[p], IF tx[p].kind = "upgrade"
                                            THEN "create_checkout_session"
                                            ELSE "create_payment_intent_for_credits")
    /\ pc' = [pc EXCEPT ![p] = "idle"]
    /\ tx' = [tx EXCEPT ![p] = NoTx]
    /\ UNCHANGED <<subs, ledger, opening, referrals, costs, documents, uploads, collaborators>>

(* Upgrade and purchase requests of users with no row, a free row without  *)
(* or with a gateway customer, or the pro row.                             *)
SetupRows == {NoRow, FreeRow, Row("free", "active", CreditsPerMonth("free"), 0, "cus_1", NoId),
              Row("pro", "active", 500, 80, "cus_1", "sub_1")}

InitSetup ==
    /\ \E r \in SetupRows :
         subs = [u \in Users |-> IF u = "u1" THEN r ELSE FreeRow]
    /\ ledger = <<>>
    /\ pc = [p \in Procs |-> "idle"]
    /\ tx = [p \in Procs |-> NoTx]
    /\ response = NoResponse
    /\ opening = [u \in Users |-> Total(subs[u])]
    /\ referrals = InitReferrals
    /\ costs = InitCosts
    /\ documents = << >>
    /\ uploads = << >>
    /\ collaborators = {}

UpgradePlans == {"free", "pro", "platinum"}

Upgrade == \E p \in Procs, u \in Users, plan \in UpgradePlans : upgrade_subscription(p, u, plan)

Purchase == \E p \in Procs, u \in Users : purchase_credits(p, u)

CreateCustomer == \E p \in Procs, ok \in BOOLEAN : create_customer(p, ok)

CreateSession == \E p \in Procs, ok \in BOOLEAN : create_session(p, ok)

NextSetup ==
    \/ Upgrade
    \/ Purchase
    \/ CreateCustomer
    \/ CreateSession

SpecSetup == InitSetup /\ [][NextSetup]_vars

(* The requests together with the gateway events that follow a payment. *)
NextEntitlement ==
    \/ NextSetup
    \/ Checkout({"p1"})
    \/ Pack({"p1"})
    \/ CommitAny

SpecEntitlement == InitSetup /\ [][NextEntitlement]_vars

(***************************************************************************)
(* Plan ceilings (models.Plan) and the checks of middleware/subscription.py *)
(***************************************************************************)
MaxRows == 3

(* max_documents is nullable: NULL = unlimited. *)
Null == -2

max_documents(plan) ==
    CASE plan = "free" -> 1
      [] plan = "pro" -> 2
      [] plan = "team" -> Null
      [] OTHER -> -1

max_file_size_mb(plan) ==
    CASE plan = "free" -> 5
      [] plan = "pro" -> 10
      [] plan = "team" -> 25
      [] OTHER -> -1

max_collaborators(plan) ==
    CASE plan = "free" -> 1
      [] plan = "pro" -> 2
      [] plan = "team" -> 5
      [] OTHER -> -1

(* settings.MAX_FILE_SIZE, in MB *)
MAX_FILE_SIZE == 10

Filenames == {"a.txt", "a.exe"}

Extension(f) == IF f = "a.exe" THEN ".exe" ELSE ".txt"

ALLOWED_EXTENSIONS == {".pdf", ".docx", ".txt", ".doc"}

FileSizes == {1, 8, 12}

Titles == {"n"}

Document(owner, title) == [owner |-> owner, title |-> title]

Upload(u, f, size) ==
    [user |-> u, original_filename |-> f, file_size |-> size,
     status |-> "pending", error_message |-> NoId]

DocumentsOf(u) == {i \in DOMAIN documents : documents[i].owner = u}

Creating == {p \in Procs : pc[p] = "creating"}

QuotaExceeded(u, endpoint, count, limit) ==
    [status |-> "quota_exceeded", user |-> u, endpoint |-> endpoint,
     count |-> count, limit |-> limit]

(* check_document_limit raises: the user has a row, the plan a limit, and  *)
(* the user owns that many documents.                                      *)
DocumentLimitReached(u) ==
    /\ subs[u] # NoRow
    /\ max_documents(subs[u].plan) # Null
    /\ max_documents(subs[u].plan) # -1
    /\ Cardinality(DocumentsOf(u)) >= max_documents(subs[u].plan)

BeginDocument(p, u, kind, title) ==
    /\ Len(documents) + Cardinality(Creating) < MaxRows
    /\ tx' = [tx EXCEPT ![p] = Tx(kind, u, title, subs[u], subs[u], << >>)]
    /\ pc' = [pc EXCEPT ![p] = "creating"]
    /\ UNCHANGED <<subs, ledger, response, opening, referrals, costs, documents, uploads, collaborators>>

Answer(p, r) ==
    /\ response' = r
    /\ UNCHANGED <<subs, ledger, pc, tx, opening, referrals, costs, documents, uploads, collaborators>>

create_document(p, u, title) ==
    /\ pc[p] = "idle"
    /\ IF DocumentLimitReached(u)
       THEN Answer(p, QuotaExceeded(u, "create_document", Cardinality(DocumentsOf(u)),
                                    max_documents(subs[u].plan)))
       ELSE BeginDocument(p, u, "document", title)

(* db.add(new_doc); await db.commit() *)
insert_document(p) ==
    /\ pc[p] = "creating"
    /\ documents' = Append(documents, Document(tx[p].user, tx[p].key))
    /\ response' = [status |-> "document", user |-> tx[p].user, title |-> tx[p].key,
                    existing |-> FALSE]
    /\ pc' = [pc EXCEPT ![p] = "idle"]
    /\ tx' = [tx EXCEPT ![p] = NoTx]
    /\ UNCHANGED <<subs, ledger, opening, referrals, costs, uploads, collaborators>>

create_document_from_upload(p, u, upload_id) ==
    /\ pc[p] = "idle"
    /\ IF upload_id \notin DOMAIN uploads
       THEN Answer(p, NotFound(u, "create_document_from_upload"))
       ELSE LET title == uploads[upload_id].original_filename
            IN IF \E i \in DocumentsOf(u) : documents[i].title = title
               THEN Answer(p, [status |-> "document", user |-> u, title |-> title,
                               existing |-> TRUE])
               ELSE BeginDocument(p, u, "from_upload", title)

(* save_upload_file stops at settings.MAX_FILE_SIZE; the plan is not read. *)
upload_file(p, u, f, size) ==
    /\ pc[p] = "idle"
    /\ IF Extension(f) \notin ALLOWED_EXTENSIONS
       THEN Answer(p, [status |-> "bad_request", user |-> u, endpoint |-> "upload_file"])
       ELSE IF size > MAX_FILE_SIZE
       THEN Answer(p, [status |-> "too_large", user |-> u, endpoint |-> "upload_file"])
       ELSE /\ Len(uploads) < MaxRows
            /\ uploads' = Append(uploads, Upload(u, f, size))
            /\ response' = [status |-> "upload", user |-> u, file_size |-> size]
            /\ UNCHANGED <<subs, ledger, pc, tx, opening, referrals, costs, documents, collaborators>>

(* The plan of the user is any of the four and does not change. *)
PlanRows ==
    {FreeRow, Row("pro", "active", 500, 0, NoId, NoId), Row("team", "active", 2000, 0, NoId, NoId),
     Row("enterprise", "active", -1, 0, NoId, NoId)}

InitDocuments ==
    /\ \E r \in PlanRows \cup {NoRow} :
         subs = [u \in Users |-> IF u = "u1" THEN r ELSE FreeRow]
    /\ ledger = <<>>
    /\ pc = [p \in Procs |-> "idle"]
    /\ tx = [p \in Procs |-> NoTx]
    /\ response = NoResponse
    /\ opening = [u \in Users |-> Total(subs[u])]
    /\ referrals = InitReferrals
    /\ costs = InitCosts
    /\ documents = << >>
    /\ uploads = << >>
    /\ collaborators = {}

CreateDocument == \E p \in Procs, t \in Titles : create_document(p, "u1", t)

CreateFromUpload == \E p \in Procs, i \in 1..MaxRows : create_document_from_upload(p, "u1", i)

InsertDocument == \E p \in Procs : insert_document(p)

UploadFile == \E f \in Filenames, size \in FileSizes : upload_file("p1", "u1", f, size)

NextDocuments ==
    \/ CreateDocument
    \/ CreateFromUpload
    \/ InsertDocument
    \/ UploadFile

SpecDocuments == InitDocuments /\ [][NextDocuments]_vars

(***************************************************************************)
(* check_collaborator_limit and its callers (api/collaborators.py,         *)
(* api/documents.py create_comment)                                        *)
(***************************************************************************)
Collaborator(d, u) == [document |-> d, user |-> u]

CollaboratorsOf(d) == {c \in collaborators : c.document = d}

(* A check that reads the plan of the user who sends the request. *)
GoverningUserInvoker(d, current_user) == current_user

(* select(Subscription, Plan) ... where Subscription.user_id == doc.owner_id *)
GoverningUser(d, current_user) == documents[d].owner

(* The outcome of the check: "false" and "true" are its return values,     *)
(* "rejected" is the HTTPException 402.                                    *)
check_collaborator_limit(d, current_user) ==
    IF d \notin DOMAIN documents THEN "false"
    ELSE LET row == subs[GoverningUser(d, current_user)]
         IN IF row = NoRow THEN "false"
            ELSE IF max_collaborators(row.plan) = -1 THEN "true"
            ELSE IF Cardinality(CollaboratorsOf(d)) >= max_collaborators(row.plan)
            THEN "rejected"
            ELSE "true"

Outcome(status, u, endpoint, d) ==
    [status |-> status, user |-> u, endpoint |-> endpoint, document |-> d]

create_comment(p, d, u) ==
    /\ pc[p] = "idle"
    /\ IF d \notin DOMAIN documents
       THEN Answer(p, Outcome("not_found", u, "create_comment", d))
       ELSE IF check_collaborator_limit(d, u) = "rejected"
       THEN Answer(p, Outcome("quota_exceeded", u, "create_comment", d))
       ELSE Answer(p, Outcome("comment", u, "create_comment", d))

invite_collaborator(p, d, u, invited) ==
    /\ pc[p] = "idle"
    /\ IF d \notin DOMAIN documents
       THEN Answer(p, Outcome("not_found", u, "invite_collaborator", d))
       ELSE IF documents[d].owner # u
       THEN Answer(p, Outcome("forbidden", u, "invite_collaborator", d))
       ELSE IF check_collaborator_limit(d, u) = "rejected"
       THEN Answer(p, Outcome("quota_exceeded", u, "invite_collaborator", d))
       ELSE IF invited = u \/ Collaborator(d, invited) \in collaborators
       THEN Answer(p, Outcome("bad_request", u, "invite_collaborator", d))
       ELSE /\ collaborators' = collaborators \cup {Collaborator(d, invited)}
            /\ response' = Outcome("collaborator", u, "invite_collaborator", d)
            /\ UNCHANGED <<subs, ledger, pc, tx, opening, referrals, costs, documents, uploads>>

(* Each user owns one document; the owner and the other user have any plan *)
(* or no Subscription row.                                                 *)
InitCollaborators ==
    /\ subs \in [Users -> PlanRows \cup {NoRow}]
    /\ ledger = <<>>
    /\ pc = [p \in Procs |-> "idle"]
    /\ tx = [p \in Procs |-> NoTx]
    /\ response = NoResponse
    /\ opening = [u \in Users |-> Total(subs[u])]
    /\ referrals = InitReferrals
    /\ costs = InitCosts
    /\ documents = << Document("u1", "n"), Document("u2", "n") >>
    /\ uploads = << >>
    /\ collaborators = {}

DocumentIds == 1..MaxRows

Comment == \E d \in DocumentIds, u \in Users : create_comment("p1", d, u)

Invite == \E d \in DocumentIds, u \in Users, v \in Users : invite_collaborator("p1", d, u, v)

NextCollaborators ==
    \/ Comment
    \/ Invite

SpecCollaborators == InitCollaborators /\ [][NextCollaborators]_vars

(***************************************************************************)
(* process_file (api/uploads.py): reads the upload and tests its status,   *)
(* sets it to processing and commits, looks the cost up, consumes (the     *)
(* consume commits), then extracts and analyses the file.  When the        *)
(* consume fails the status is set back to pending; when the processing    *)
(* fails it is set to failed.  get_ai_suggestions (api/documents.py).      *)
(***************************************************************************)
ProcessTx(u, id) ==
    [kind |-> "process", user |-> u, upload |-> id, amount |-> 0,
     loaded |-> NoRow, local |-> NoRow, entries |-> << >>]

process_file(p, u, id) ==
    /\ pc[p] = "idle"
    /\ IF id \notin DOMAIN uploads \/ uploads[id].user # u
       THEN Answer(p, NotFound(u, "process_file"))
       ELSE IF uploads[id].status \in {"processing", "completed"}
       THEN Answer(p, [status |-> "bad_request", user |-> u, endpoint |-> "process_file"])
       ELSE /\ tx' = [tx EXCEPT ![p] = ProcessTx(u, id)]
            /\ pc' = [pc EXCEPT ![p] = "guarded"]
            /\ UNCHANGED <<subs, ledger, response, opening, referrals, costs, documents, uploads, collaborators>>

(* update(Upload).values(status="processing", error_message=None); commit *)
mark_processing(p) ==
    /\ pc[p] = "guarded"
    /\ uploads' = [uploads EXCEPT ![tx[p].upload].status = "processing",
                                  ![tx[p].upload].error_message = NoId]
    /\ pc' = [pc EXCEPT ![p] = "marked"]
    /\ UNCHANGED <<subs, ledger, tx, response, opening, referrals, costs, documents, collaborators>>

(* A handler that leaves the upload as it is when the consume fails. *)
RevertedStuck(up, detail) == up

(* except HTTPException: values(status="pending", error_message=str(e.detail)) *)
Reverted(up, detail) == [up EXCEPT !.status = "pending", !.error_message = detail]

Revert(p, r) ==
    /\ uploads' = [uploads EXCEPT ![tx[p].upload] = Reverted(@, r.status)]
    /\ response' = r
    /\ pc' = [pc EXCEPT ![p] = "idle"]
    /\ tx' = [tx EXCEPT ![p] = NoTx]
    /\ UNCHANGED <<subs, ledger, opening, referrals, costs, documents, collaborators>>

process_price(p) ==
    LET found == ActiveCost(costs, "file_processing")
    IN /\ pc[p] = "marked"
       /\ IF found = {}
          THEN Revert(p, ConfigError(tx[p].user, "file_processing"))
          ELSE /\ tx' = [tx EXCEPT ![p].amount = One(found).cost]
               /\ pc' = [pc EXCEPT ![p] = "costed"]
               /\ UNCHANGED <<subs, ledger, response, opening, referrals, costs, documents, uploads, collaborators>>

Charging == {q \in Procs : pc[q] = "charging"}

process_consume(p) ==
    LET u == tx[p].user
        amount == tx[p].amount
    IN /\ pc[p] = "costed"
       /\ IF subs[u] = NoRow
          THEN Revert(p, NotFound(u, "consume_credits"))
          ELSE IF Total(subs[u]) < amount
          THEN Revert(p, Insufficient(u, amount, subs[u]))
          ELSE /\ Room(1 + Cardinality(Charging))
               /\ tx' = [tx EXCEPT ![p].loaded = subs[u],
                                   ![p].local = Deduct(subs[u], amount),
                                   ![p].entries = << Entry(u, -amount, "usage", NoId) >>]
               /\ pc' = [pc EXCEPT ![p] = "charging"]
               /\ UNCHANGED <<subs, ledger, response, opening, referrals, costs, documents, uploads, collaborators>>

(* the db.commit() of consume_credits *)
process_charge(p) ==
    /\ pc[p] = "charging"
    /\ subs' = [subs EXCEPT ![tx[p].user] = Flush(@, tx[p].loaded, tx[p].local)]
    /\ ledger' = ledger \o tx[p].entries
    /\ pc' = [pc EXCEPT ![p] = "processing"]
    /\ UNCHANGED <<tx, response, opening, referrals, costs, documents, uploads, collaborators>>

(* A handler that gives the credits back when the processing fails. *)
FailureLedgerRefunding(l, t) == l \o << Entry(t.user, t.amount, "refund", NoId) >>

FailureLedger(l, t) == l

(* extract_text_from_file, analyze_document, analyze_text; ok = FALSE when *)
(* one of them raises.                                                     *)
process_finish(p, ok) ==
    /\ pc[p] = "processing"
    /\ uploads' = [uploads EXCEPT ![tx[p].upload].status = IF ok THEN "completed" ELSE "failed",
                                  ![tx[p].upload].error_message = IF ok THEN NoId ELSE "error"]
    /\ ledger' = IF ok THEN ledger ELSE FailureLedger(ledger, tx[p])
    /\ response' = [status |-> IF ok THEN "completed" ELSE "processing_failed",
                    user |-> tx[p].user, upload |-> tx[p].upload]
    /\ pc' = [pc EXCEPT ![p] = "idle"]
    /\ tx' = [tx EXCEPT ![p] = NoTx]
    /\ UNCHANGED <<subs, opening, referrals, costs, documents, collaborators>>

get_ai_suggestions(p, u, d) ==
    /\ pc[p] = "idle"
    /\ IF d \notin DOMAIN documents
       THEN Answer(p, NotFound(u, "get_ai_suggestions"))
       ELSE Answer(p, [status |-> "suggestions", user |-> u, document |-> d])

(* The user has uploaded a.txt and owns one document; they have no row,    *)
(* the free row, or 3 credits left; the cost row of file processing is     *)
(* active or was deactivated.                                              *)
ProcessingRows == {NoRow, FreeRow, Row("free", "active", 3, 0, NoId, NoId)}

ProcessingCosts ==
    { InitCosts,
      {CreditCost("file_processing", 5, FALSE), CreditCost("document_creation", 25, TRUE)} }

InitProcessing ==
    /\ \E r \in ProcessingRows :
         subs = [u \in Users |-> IF u = "u1" THEN r ELSE FreeRow]
    /\ ledger = <<>>
    /\ pc = [p \in Procs |-> "idle"]
    /\ tx = [p \in Procs |-> NoTx]
    /\ response = NoResponse
    /\ opening = [u \in Users |-> Total(subs[u])]
    /\ referrals = InitReferrals
    /\ costs \in ProcessingCosts
    /\ documents = << Document("u1", "n") >>
    /\ uploads = << Upload("u1", "a.txt", 1) >>
    /\ collaborators = {}

ProcessFile == \E p \in Procs, u \in Users, id \in 1..2 : process_file(p, u, id)

ProcessStep ==
    \E p \in Procs :
        \/ mark_processing(p)
        \/ process_price(p)
        \/ process_consume(p)
        \/ process_charge(p)
        \/ \E ok \in BOOLEAN : process_finish(p, ok)

Suggest == \E d \in 1..2 : get_ai_suggestions("p1", "u1", d)

NextProcessing ==
    \/ ProcessFile
    \/ ProcessStep
    \/ Suggest
    \/ CreateFromUpload
    \/ InsertDocument

SpecProcessing == InitProcessing /\ [][NextProcessing]_vars

(***************************************************************************)
(* generate_code, get_my_referrals (api/referrals.py): return the code row *)
(* of the user (referee_id empty), or insert one with a generated code.    *)
(***************************************************************************)
OwnRows(tbl, u) == {i \in DOMAIN tbl : tbl[i].referrer_id = u /\ tbl[i].referee_id = NoId}

(* generate_referral_code(): any of the codes secrets.choice can draw *)
GeneratedCodes == { <<"A", "B", "1">>, <<"Z", "Z", "9">> }

Coding == {q \in Procs : pc[q] = "coding"}

CodeResponse(status, u, endpoint, code) ==
    [status |-> status, user |-> u, endpoint |-> endpoint, code |-> code]

CodeBegin(p, u, endpoint) ==
    \E code \in GeneratedCodes :
        /\ Len(referrals) + Cardinality(Coding) < MaxRows
        /\ tx' = [tx EXCEPT ![p] = [kind |-> endpoint, user |-> u,
                                    new_referral |-> Referral(u, NoId, code, "pending")]]
        /\ pc' = [pc EXCEPT ![p] = "coding"]
        /\ UNCHANGED <<subs, ledger, response, opening, referrals, costs, documents, uploads, collaborators>>

(* scalar_one_or_none() without a limit raises when two rows match *)
generate_code(p, u) ==
    LET own == OwnRows(referrals, u)
    IN /\ pc[p] = "idle"
       /\ IF Cardinality(own) > 1
          THEN Answer(p, CodeResponse("multiple_results", u, "generate_code", << >>))
          ELSE IF own # {}
          THEN Answer(p, CodeResponse("code", u, "generate_code", referrals[One(own)].referral_code))
          ELSE CodeBegin(p, u, "generate_code")

(* .limit(1): any one of the matching rows *)
get_my_referrals(p, u) ==
    LET own == OwnRows(referrals, u)
    IN /\ pc[p] = "idle"
       /\ IF own # {}
          THEN \E i \in own :
                  Answer(p, CodeResponse("code", u, "get_my_referrals", referrals[i].referral_code))
          ELSE CodeBegin(p, u, "get_my_referrals")

(* db.add(referral); await db.commit() *)
CodeCommit(p) ==
    /\ pc[p] = "coding"
    /\ IF UniqueViolation(referrals, tx[p].new_referral)
       THEN /\ response' = CodeResponse("integrity_error", tx[p].user, tx[p].kind, << >>)
            /\ UNCHANGED referrals
       ELSE /\ referrals' = Append(referrals, tx[p].new_referral)
            /\ response' = CodeResponse("code", tx[p].user, tx[p].kind,
                                        tx[p].new_referral.referral_code)
    /\ pc' = [pc EXCEPT ![p] = "idle"]
    /\ tx' = [tx EXCEPT ![p] = NoTx]
    /\ UNCHANGED <<subs, ledger, opening, costs, documents, uploads, collaborators>>

(* No user has a code yet. *)
InitCodes ==
    /\ subs = [u \in Users |-> FreeRow]
    /\ ledger = <<>>
    /\ pc = [p \in Procs |-> "idle"]
    /\ tx = [p \in Procs |-> NoTx]
    /\ response = NoResponse
    /\ opening = [u \in Users |-> Total(subs[u])]
    /\ referrals = << >>
    /\ costs = InitCosts
    /\ documents = << >>
    /\ uploads = << >>
    /\ collaborators = {}

GenerateCode == \E p \in Procs, u \in Users : generate_code(p, u)

ReferralStats == \E p \in Procs, u \in Users : get_my_referrals(p, u)

CodeCommitAny == \E p \in Procs : CodeCommit(p)

NextCodes ==
    \/ GenerateCode
    \/ ReferralStats
    \/ CodeCommitAny

SpecCodes == InitCodes /\ [][NextCodes]_vars

(***************************************************************************)
(* A scheduled downgrade or cancellation and the gateway events that may   *)
(* follow it: the requests do not call the gateway, which goes on sending  *)
(* the events of the subscription.                                         *)
(***************************************************************************)
Downgrade == \E p \in Procs : downgrade_subscription(p, "u1")

NextDowngrade ==
    \/ Downgrade
    \/ Cancel({"p1"}, {"u1"})
    \/ Renewal({"p1"})
    \/ Failed({"p1"})
    \/ Updated({"p1"})
    \/ Deleted({"p1"})
    \/ CommitAny

SpecDowngrade == Init /\ [][NextDowngrade]_vars

(***************************************************************************)
(* Properties.                                                             *)
(***************************************************************************)
IsUsage(e) == e.type = "usage"

UsageCount == Len(SelectSeq(ledger, IsUsage))

ConsumeBegins(p) == pc[p] = "idle" /\ pc'[p] = "loaded" /\ tx'[p].kind = "consume"

ConsumeCommits(p) == pc[p] = "loaded" /\ tx[p].kind = "consume" /\ pc'[p] = "idle"

(* The cost a consume in flight is charging. *)
CostOf(t) == Total(t.loaded) - Total(t.local)

(* C1: no double-spend.  With only consume calls running, in any           *)
(* interleaving of their reads and commits, the costs of the calls that    *)
(* succeeded (the usage entries) never add up to more than the balance     *)
(* that was available before them.                                         *)
C1_NoDoubleSpend ==
    \A u \in Users : 0 - SumAmounts(UsageOf(u)) <= opening[u]

(* C2: every committed state of any interleaving of consume calls has      *)
(* credits_remaining >= 0 and credits_rollover >= 0.                       *)
C2_ConsumeNonNegative ==
    \A u \in Users :
        /\ subs[u].credits_remaining >= 0
        /\ subs[u].credits_rollover >= 0

(* Two overlapping consume calls have both committed and emptied the row. *)
C2_Witness ==
    /\ UsageCount = 2
    /\ 0 - SumAmounts(UsageOf("u1")) > opening["u1"]
    /\ Total(subs["u1"]) = 0

(* C3: in every reachable state, after operations of any kind, every       *)
(* Subscription has credits_remaining >= 0 and credits_rollover >= 0.      *)
C3_BalanceNonNegative ==
    \A u \in Users :
        subs[u].credits_remaining >= 0 /\ subs[u].credits_rollover >= 0

(* C4: a consume whose cost exceeds the total balance is rejected with an  *)
(* insufficient-credits error that carries the required cost and the       *)
(* available total, and the step changes neither the row nor the ledger;   *)
(* no consume with such a cost gets past the check.                        *)
C4_InsufficientNoMutation ==
    [][ /\ (response'.status = "insufficient" /\ response' # response) =>
              /\ subs' = subs
              /\ ledger' = ledger
              /\ pc' = pc /\ tx' = tx
              /\ response'.required \in Costs
              /\ response'.available = Total(subs[response'.user])
              /\ response'.available < response'.required
        /\ \A p \in Procs :
              ConsumeBegins(p) => CostOf(tx'[p]) <= Total(subs[tx'[p].user])
      ]_vars

(* A cost of 25 was refused against a balance of 20, left as it was. *)
C4_Witness ==
    /\ response = [status |-> "insufficient", user |-> "u1", required |-> 25, available |-> 20]
    /\ Total(subs["u1"]) = 20

(* C5: a successful consume of cost c from (credits_remaining = r,         *)
(* credits_rollover = o) spends rollover first: the values it commits are  *)
(* credits_rollover = max(0, o - c) and credits_remaining = r - max(0,     *)
(* c - o); when no other call changed the row since it was read, that is   *)
(* the row after the commit, its total is lower by exactly c, and          *)
(* credits_remaining is untouched whenever o >= c.                         *)
C5_RolloverFirst ==
    [][ \A p \in Procs :
          ConsumeCommits(p) =>
            LET u == tx[p].user
                r == tx[p].loaded.credits_remaining
                o == tx[p].loaded.credits_rollover
                c == 0 - tx[p].entries[1].amount
            IN /\ tx[p].local.credits_rollover = Max(0, o - c)
               /\ tx[p].local.credits_remaining = r - Max(0, c - o)
               /\ subs[u] = tx[p].loaded =>
                     /\ subs'[u].credits_rollover = Max(0, o - c)
                     /\ subs'[u].credits_remaining = r - Max(0, c - o)
                     /\ Total(subs'[u]) = Total(subs[u]) - c
                     /\ (o >= c => subs'[u].credits_remaining = r)
      ]_vars

(* A cost of 5 was taken from a rollover of 5 and the allowance of 20 kept. *)
C5_Witness ==
    /\ opening["u1"] = 25
    /\ ledger = << Entry("u1", -5, "usage", NoId) >>
    /\ subs["u1"].credits_remaining = 20
    /\ subs["u1"].credits_rollover = 0

(* C6: every successful consume appends exactly one usage entry of amount  *)
(* -cost for the consuming user, in the same commit that writes the        *)
(* deduction; the read step writes nothing, and no other step adds a       *)
(* usage entry.                                                            *)
C6_DeductionAndEntryTogether ==
    [][ /\ \A p \in Procs :
              ConsumeCommits(p) =>
                /\ ledger' = Append(ledger,
                                    Entry(tx[p].user, 0 - CostOf(tx[p]), "usage", NoId))
                /\ subs' = [subs EXCEPT ![tx[p].user] =
                                Flush(@, tx[p].loaded, tx[p].local)]
        /\ \A p \in Procs :
              ConsumeBegins(p) => subs' = subs /\ ledger' = ledger
        /\ UsageCount' # UsageCount => \E p \in Procs : ConsumeCommits(p)
      ]_vars

(* A consume of 25 has committed: the row is empty and its entry is there. *)
C6_Witness ==
    /\ response = [status |-> "ok", kind |-> "consume", key |-> NoId]
    /\ ledger = << Entry("u1", -25, "usage", NoId) >>
    /\ Total(subs["u1"]) = opening["u1"] - 25

(* C7: reconciliation identity for consumption.  With only consume calls   *)
(* running, concurrent ones included, the ledger amounts they appended sum *)
(* to the total balance now minus the total balance at the start.          *)
C7_ConsumeReconciles ==
    \A u \in Users :
        SumAmounts(SelectSeq(LedgerOf(u), IsUsage)) = Total(subs[u]) - opening[u]

(* C8: the ledger is fully explanatory.  After any sequence of operations  *)
(* of any kind the total balance equals the balance the subscription       *)
(* started with plus the sum of all its ledger amounts.                    *)
C8_LedgerExplainsBalance ==
    \A u \in Users :
        Total(subs[u]) = opening[u] + SumAmounts(LedgerOf(u))

Replays(p, kind) ==
    /\ pc[p] = "loaded" /\ pc'[p] = "idle"
    /\ tx[p].kind = kind
    /\ response = Done(tx[p])

KeyCount(led, key) == Len(SelectSeq(led, LAMBDA e : e.key = key))

(* C9: renewal idempotence.  An invoice payment succeeded event that is    *)
(* applied again right after it was applied (same invoice id, nothing      *)
(* committed in between) leaves credits_remaining, credits_rollover and    *)
(* the ledger exactly as they were after the first application.            *)
C9_RenewalIdempotent ==
    [][ \A p \in Procs :
          Replays(p, "renewal") => subs' = subs /\ ledger' = ledger
      ]_vars

(* C10: credit-pack idempotence.  A one-time payment succeeded event that  *)
(* is applied again right after it was applied (same payment intent id)    *)
(* grants nothing more: credits_remaining stays as the first application   *)
(* left it and the ledger holds one purchase entry for the payment intent. *)
C10_PackIdempotent ==
    [][ \A p \in Procs :
          Replays(p, "pack") =>
            /\ subs'[tx[p].user].credits_remaining = subs[tx[p].user].credits_remaining
            /\ KeyCount(ledger', tx[p].key) = 1
      ]_vars

(* A checkout session was applied before when the row is bound to the      *)
(* plan, customer and gateway subscription the session carries.            *)
SessionApplied(t) ==
    /\ subs[t.user].plan = t.local.plan
    /\ subs[t.user].stripe_customer_id = t.local.stripe_customer_id
    /\ subs[t.user].stripe_subscription_id = t.local.stripe_subscription_id

CheckoutCommits(p) == pc[p] = "loaded" /\ tx[p].kind = "checkout" /\ pc'[p] = "idle"

(* C11: checkout idempotence.  A checkout completed event whose session    *)
(* was applied before, delivered again after the user has consumed         *)
(* credits (so that it reads the row they left), does not restore what     *)
(* was consumed and appends no second ledger entry: credits_remaining and  *)
(* the ledger stay as they were.                                           *)
C11_CheckoutIdempotent ==
    [][ \A p \in Procs :
          ( /\ CheckoutCommits(p)
            /\ SessionApplied(tx[p])
            /\ tx[p].loaded = subs[tx[p].user]
            /\ SumAmounts(UsageOf(tx[p].user)) < 0 ) =>
              /\ subs'[tx[p].user].credits_remaining = subs[tx[p].user].credits_remaining
              /\ ledger' = ledger
      ]_vars

(* The three events of the signup of u1 have all been applied to the free  *)
(* row: the ledger holds the entry of the checkout and the entry of the    *)
(* first invoice and nothing else, and the subscription created event was  *)
(* the last one handled.                                                   *)
SignupApplied ==
    /\ opening["u1"] = 20
    /\ \A p \in Procs : pc[p] = "idle"
    /\ Len(ledger) = 2
    /\ KeyCount(ledger, "cs_1") = 1
    /\ KeyCount(ledger, "in_1") = 1
    /\ response = [status |-> "ok", kind |-> "created", key |-> "sub_1"]

(* C12: order-insensitivity of the signup events.  Whatever the order in   *)
(* which checkout completed, subscription created and the first invoice    *)
(* payment succeeded were applied, the final row is the same, the one the  *)
(* order created, invoice, checkout leaves: plan pro, status active,       *)
(* credits_remaining 500, credits_rollover 0; in no order does the user    *)
(* hold more than the one allowance of the plan.                           *)
C12_SignupOrderInsensitive ==
    SignupApplied =>
        /\ subs["u1"] = Row("pro", "active", 500, 0, "cus_1", "sub_1")
        /\ Total(subs["u1"]) <= CreditsPerMonth(subs["u1"].plan)

RenewalCommits(p) == pc[p] = "loaded" /\ tx[p].kind = "renewal" /\ pc'[p] = "idle"

(* C13: renewal post-state.  An invoice payment succeeded event applied to *)
(* a known subscription that holds credits_remaining = r >= 0 (r = 0       *)
(* included), nothing else having changed the row meanwhile, leaves        *)
(* credits_remaining at the allowance of the plan and credits_rollover at  *)
(* min(r, K), K the rollover cap of the plan, and appends one ledger entry *)
(* of type rollover or purchase.                                           *)
C13_RenewalPostState ==
    [][ \A p \in Procs :
          ( /\ RenewalCommits(p)
            /\ tx[p].loaded = subs[tx[p].user]
            /\ tx[p].loaded.credits_remaining >= 0 ) =>
              LET u == tx[p].user
                  r == tx[p].loaded.credits_remaining
                  K == RolloverLimit(subs[u].plan)
              IN /\ subs'[u].credits_remaining = CreditsPerMonth(subs[u].plan)
                 /\ subs'[u].credits_rollover = Min(r, K)
                 /\ Len(ledger') = Len(ledger) + 1
                 /\ ledger'[Len(ledger')].type \in {"rollover", "purchase"}
      ]_vars

WithinRolloverCap(row) == row.credits_rollover <= RolloverLimit(row.plan)

(* C14: rollover cap.  No step takes a subscription whose credits_rollover *)
(* is within the rollover cap of its plan (100 pro, 500 team, 0 any other  *)
(* plan) to a row whose credits_rollover exceeds the cap of the plan it    *)
(* then has; plan changes by checkout completed, subscription deleted and  *)
(* immediate cancel included.                                              *)
C14_RolloverCap ==
    [][ \A u \in Users :
          WithinRolloverCap(subs[u]) => WithinRolloverCap(subs'[u])
      ]_vars

RedeemCommits(p) == pc[p] = "redeeming" /\ pc'[p] = "idle"

IsRefereeBonus(e) == e.type = "bonus" /\ e.key = "referee_bonus"

IsReferrerBonus(e) == e.type = "bonus" /\ e.key = "referrer_bonus"

(* C15: successful redemption.  When user B, who has a subscription and    *)
(* is referee on no row, redeems the code of another user A who has a      *)
(* subscription, on a store that enforces the unique index on              *)
(* referral_code, the commit of the redeem succeeds: B's credits_remaining *)
(* is 50 higher with a +50 bonus entry, A's is 500 higher with a +500      *)
(* bonus entry, a new row (referrer A, referee B) exists, and that row and *)
(* A's code row have status rewarded.                                      *)
C15_RedeemSucceeds ==
    [][ \A p \in Procs :
          ( /\ RedeemCommits(p)
            /\ tx[p].loaded.referee # NoRow /\ tx[p].loaded.referee = subs[tx[p].user]
            /\ tx[p].loaded.referrer # NoRow /\ tx[p].loaded.referrer = subs[tx[p].referrer]
            /\ ByReferee(referrals, tx[p].user) = {} ) =>
              LET B == tx[p].user
                  A == tx[p].referrer
              IN /\ response' = RedeemResponse("ok", B, tx[p].key)
                 /\ subs'[B].credits_remaining = subs[B].credits_remaining + 50
                 /\ subs'[A].credits_remaining = subs[A].credits_remaining + 500
                 /\ ledger' = ledger \o << Entry(B, 50, "bonus", "referee_bonus"),
                                           Entry(A, 500, "bonus", "referrer_bonus") >>
                 /\ Len(referrals') = Len(referrals) + 1
                 /\ referrals'[Len(referrals')] =
                        Referral(A, B, referrals[tx[p].referral].referral_code, "rewarded")
                 /\ referrals'[tx[p].referral].status = "rewarded"
      ]_vars

RefereeBonusCount(led, u) ==
    Len(SelectSeq(led, LAMBDA e : e.user = u /\ IsRefereeBonus(e)))

(* C16: no stacking of referral bonuses.  After every step of any          *)
(* interleaving of redeem calls (same or different codes, overlapping      *)
(* calls of one redeemer included) each user is referee on at most one     *)
(* Referral row and holds at most one referee bonus entry; no redeem of a  *)
(* user who already is a referee gets past the checks, and a commit of     *)
(* such a user's redeem changes no row and no ledger entry.                *)
C16_NoStacking ==
    [][ /\ \A u \in Users :
              /\ Cardinality(ByReferee(referrals', u)) <= 1
              /\ RefereeBonusCount(ledger', u) <= 1
        /\ \A p \in Procs :
              /\ (pc[p] = "idle" /\ pc'[p] = "redeeming") =>
                    ByReferee(referrals, tx'[p].user) = {}
              /\ (RedeemCommits(p) /\ ByReferee(referrals, tx[p].user) # {}) =>
                    subs' = subs /\ ledger' = ledger /\ referrals' = referrals
      ]_vars

(* Two overlapping redeems of u2: one has failed at its commit, the other  *)
(* is still open, and u2 is referee on no row.                             *)
C16_Witness ==
    /\ \E p \in Procs : pc[p] = "redeeming" /\ tx[p].user = "u2"
    /\ response.status = "integrity_error" /\ response.user = "u2"
    /\ ByReferee(referrals, "u2") = {}

(* The redeem request the response r answers is a self-referral: the code   *)
(* submitted is, letter case aside, the code of a row whose referrer is    *)
(* the redeemer.                                                           *)
OwnCode(u, code) ==
    \E i \in DOMAIN referrals :
        /\ referrals[i].referrer_id = u
        /\ Upper(referrals[i].referral_code) = Upper(code)

RedeemStatuses ==
    {"ok", "integrity_error", "not_found", "multiple_rows", "self_referral", "already_used"}

(* C17: self-referral is always rejected.  A redeem whose code is, in any  *)
(* letter case, the redeemer's own code is answered with the self-referral *)
(* rejection in the step that handles it, which changes no Referral row,   *)
(* no balance and no ledger entry and opens no transaction.                *)
C17_SelfReferralRejected ==
    [][ /\ ( /\ response' # response
             /\ response'.status \in RedeemStatuses
             /\ OwnCode(response'.user, response'.code) ) =>
               /\ response'.status = "self_referral"
               /\ UNCHANGED <<subs, ledger, referrals, pc, tx>>
        /\ \A p \in Procs :
             (pc[p] = "idle" /\ pc'[p] = "redeeming") =>
                ~OwnCode(tx'[p].user, tx'[p].key)
      ]_vars

(* u1 has submitted its own code in lower case and was refused. *)
C17_Witness ==
    /\ response = RedeemResponse("self_referral", "u1", <<"a", "b", "1">>)
    /\ referrals = InitReferrals
    /\ ledger = <<>>

Redemptions == {i \in DOMAIN referrals : referrals[i].referee_id # NoId}

ReferrerBonusCount(led, u) ==
    Len(SelectSeq(led, LAMBDA e : e.user = u /\ IsReferrerBonus(e)))

(* The redemption recorded by row i is applied in full. *)
FullyApplied(i) ==
    LET row == referrals[i]
    IN /\ row.status = "rewarded"
       /\ \E j \in DOMAIN referrals :
             /\ referrals[j].referrer_id = row.referrer_id
             /\ referrals[j].referee_id = NoId
             /\ referrals[j].status = "rewarded"
       /\ RefereeBonusCount(ledger, row.referee_id) = 1
       /\ ReferrerBonusCount(ledger, row.referrer_id) >= 1

(* C18: referral reward atomicity.  In every committed state each          *)
(* redemption is applied in full (its Referral row present and rewarded,   *)
(* the code row rewarded, the referee granted 50 and the referrer 500) or  *)
(* not at all: there are as many referee bonuses and as many referrer      *)
(* bonuses as redemption rows, every balance holds exactly the bonuses the *)
(* ledger records, and with no redemption row no code row is rewarded;     *)
(* users without a Subscription row included.                              *)
C18_RewardAtomic ==
    /\ \A i \in Redemptions : FullyApplied(i)
    /\ Len(SelectSeq(ledger, IsRefereeBonus)) = Cardinality(Redemptions)
    /\ Len(SelectSeq(ledger, IsReferrerBonus)) = Cardinality(Redemptions)
    /\ \A u \in Users : Total(subs[u]) = opening[u] + SumAmounts(LedgerOf(u))
    /\ Redemptions = {} => \A i \in DOMAIN referrals : referrals[i].status = "pending"

(* A redeem by u2, who has no Subscription row, of the code of u1, who has *)
(* one, has reached its commit and was undone as a whole.                  *)
C18_Witness ==
    /\ response.status = "integrity_error" /\ response.user = "u2"
    /\ subs["u2"] = NoRow /\ subs["u1"] # NoRow
    /\ Total(subs["u1"]) = opening["u1"]
    /\ referrals = InitReferrals

Unlimited(row) == CreditsPerMonth(row.plan) = -1

(* C19: unlimited plans are not metered.  A consume call, as made by file  *)
(* processing, document creation and AI suggestions, of a user whose plan  *)
(* has credits_per_month = -1 is never refused for insufficient credits,   *)
(* whatever credits_remaining and credits_rollover are, and the session it *)
(* opens changes neither field and holds no ledger entry.                  *)
C19_UnlimitedNotMetered ==
    [][ /\ (response' # response /\ response'.status = "insufficient") =>
              ~Unlimited(subs[response'.user])
        /\ \A p \in Procs :
              (ConsumeBegins(p) /\ Unlimited(subs[tx'[p].user])) =>
                 /\ tx'[p].local = tx'[p].loaded
                 /\ tx'[p].entries = << >>
      ]_vars

(* C20: a metered operation whose type has no CreditCost row, or only an   *)
(* inactive one, fails with the configuration error in the cost lookup,    *)
(* before the balance is read: the step changes no balance, no ledger      *)
(* entry and opens no session.  A request gets past the lookup only with   *)
(* the cost of a row of its operation type that is active then, and that   *)
(* cost is what the consume charges.                                       *)
C20_NoActiveCostNoCharge ==
    [][ /\ (response' # response /\ response'.status = "config_error") =>
              /\ UNCHANGED <<subs, ledger, pc, tx>>
              /\ ~\E r \in costs :
                     r.operation_type = response'.operation /\ r.is_active
        /\ \A p \in Procs :
              /\ (pc[p] = "idle" /\ pc'[p] # "idle") =>
                    /\ pc'[p] = "priced"
                    /\ \E r \in costs :
                          /\ r.operation_type = tx'[p].operation
                          /\ r.is_active
                          /\ r.cost = tx'[p].amount
              /\ (pc[p] = "priced" /\ pc'[p] = "loaded") =>
                    /\ CostOf(tx'[p]) = tx[p].amount
                    /\ tx'[p].entries = << Entry(tx[p].user, 0 - tx[p].amount, "usage", NoId) >>
      ]_vars

(* File processing was refused for its cost row being inactive, and the    *)
(* user's balance is the opening one.                                      *)
C20_Witness ==
    /\ response = ConfigError("u1", "file_processing")
    /\ \E r \in costs : r.operation_type = "file_processing" /\ ~r.is_active /\ r.cost > 0
    /\ Total(subs["u1"]) = opening["u1"]
    /\ ledger = << >>

(* C21: get_balance auto-provisions.  A balance query of a user who has    *)
(* no Subscription row does not fail: it creates the row on the free plan  *)
(* with credits_remaining at the free allowance and answers with that      *)
(* balance.                                                                *)
C21_BalanceAutoProvisions ==
    [][ \A u \in Users :
          ( /\ response' # response
            /\ \/ response'.status = "balance"
               \/ (response'.status = "not_found" /\ response'.endpoint = "get_balance")
            /\ response'.user = u
            /\ subs[u] = NoRow ) =>
              /\ response'.status = "balance"
              /\ subs'[u] = FreeRow
              /\ response'.credits_remaining = CreditsPerMonth("free")
      ]_vars

ProvisionCommits(p) == pc[p] = "provisioning" /\ pc'[p] = "idle"

(* C22: at most one Subscription per user.  The commit of an               *)
(* auto-provision that finds the user's row already inserted, as the       *)
(* second of two concurrent requests that both saw no row does, inserts    *)
(* nothing: it fails on the unique index and leaves the row of the first   *)
(* as it is; a commit that finds no row inserts exactly the free row.      *)
C22_OneSubscriptionPerUser ==
    [][ \A p \in Procs :
          ProvisionCommits(p) =>
             LET u == tx[p].user
             IN IF subs[u] # NoRow
                THEN /\ response'.status = "integrity_error"
                     /\ subs' = subs
                ELSE /\ response'.status = "subscription"
                     /\ subs' = [subs EXCEPT ![u] = FreeRow]
      ]_vars

(* Both requests for u2 saw no row; the first inserted it, the user spent  *)
(* from it, and the second failed at its commit without resetting it.      *)
C22_Witness ==
    /\ response = [status |-> "integrity_error", user |-> "u2", endpoint |-> "get_my_subscription"]
    /\ opening["u2"] = 0
    /\ subs["u2"].plan = "free"
    /\ Total(subs["u2"]) = 15

WebhookKinds == {"checkout", "created", "updated", "deleted", "renewal", "failed", "pack"}

(* The gateway subscription id, the gateway customer id an event carries.  *)
SubscriptionOf(t) ==
    IF t.kind \in {"renewal", "failed"}
    THEN (CHOOSE i \in Invoices : i.id = t.key).subscription
    ELSE t.key

CustomerOf(t) ==
    IF t.kind = "pack"
    THEN (CHOOSE i \in PaymentIntents : i.id = t.key).customer
    ELSE (CHOOSE o \in SubscriptionObjects : o.id = t.key).customer

(* The row of t.user is the one the reference of the event names. *)
Matches(db, t) ==
    /\ db[t.user] # NoRow
    /\ t.kind \in {"created", "pack"} => db[t.user].stripe_customer_id = CustomerOf(t)
    /\ t.kind \in {"updated", "deleted", "renewal", "failed"} =>
          db[t.user].stripe_subscription_id = SubscriptionOf(t)

WebhookBegins(p) == pc[p] = "idle" /\ pc'[p] = "loaded" /\ tx'[p].kind \in WebhookKinds

FailedCommits(p) == pc[p] = "loaded" /\ tx[p].kind = "failed" /\ pc'[p] = "idle"

(* C24: payment failure frame.  An invoice payment failed event applied to *)
(* a known subscription, no other event having changed its status          *)
(* meanwhile, sets status to past_due and changes nothing else: plan,      *)
(* credits_remaining, credits_rollover, the gateway ids, every other row   *)
(* and the ledger are as they were, whatever the user consumed meanwhile.  *)
C24_PaymentFailedFrame ==
    [][ \A p \in Procs :
          (FailedCommits(p) /\ tx[p].loaded.status = subs[tx[p].user].status) =>
             /\ subs' = [subs EXCEPT ![tx[p].user].status = "past_due"]
             /\ ledger' = ledger
      ]_vars

(* The failure was applied after the user spent 5 credits that the handler *)
(* had not read: the credits stay spent, the status is past_due.           *)
C24_Witness ==
    /\ response = [status |-> "ok", kind |-> "failed", key |-> "in_1"]
    /\ subs["u1"].status = "past_due"
    /\ subs["u1"].plan = "pro"
    /\ subs["u1"].stripe_subscription_id = "sub_1"
    /\ Total(subs["u1"]) = 575
    /\ Len(ledger) = 1

DeletedCommits(p) == pc[p] = "loaded" /\ tx[p].kind = "deleted" /\ pc'[p] = "idle"

(* C25: after deletion.  A subscription deleted event applied to a known   *)
(* subscription leaves the row in place, on the free plan, with no gateway *)
(* subscription id and with credits_remaining at the free allowance; and   *)
(* once sub_1 was deleted, no later renewal, update or payment failure     *)
(* event carrying sub_1 opens a transaction on any row.                    *)
C25_DeletedIsFinal ==
    [][ \A p \in Procs :
          /\ (DeletedCommits(p) /\ tx[p].loaded = subs[tx[p].user]) =>
                /\ subs'[tx[p].user] # NoRow
                /\ subs'[tx[p].user].plan = "free"
                /\ subs'[tx[p].user].stripe_subscription_id = NoId
                /\ subs'[tx[p].user].credits_remaining = CreditsPerMonth("free")
          /\ ~ ( /\ WebhookBegins(p)
                 /\ tx'[p].kind \in {"renewal", "updated", "failed"}
                 /\ SubscriptionOf(tx'[p]) = "sub_1" )
      ]_vars

StatusDomain == {"active", "cancelled", "expired", "trial", "past_due"}

(* C26: status domain.  In every reachable state the status of every       *)
(* Subscription row is one of active, cancelled, expired, trial, past_due, *)
(* whatever status a subscription updated event carries.                   *)
C26_StatusDomain ==
    \A u \in Users : subs[u] # NoRow => subs[u].status \in StatusDomain

SetupFails(p) ==
    /\ pc[p] \in {"customer", "session"}
    /\ pc'[p] = "idle"
    /\ response'.status = "gateway_error"

(* C27: gateway failures mutate nothing.  When a gateway call of an        *)
(* upgrade or credit-purchase request fails (customer creation, checkout   *)
(* session creation, payment intent creation), the Subscription row of     *)
(* the user is exactly the row the request read when it began, its         *)
(* stripe_customer_id included.                                            *)
C27_GatewayFailureNoMutation ==
    [][ \A p \in Procs :
          SetupFails(p) => subs'[tx[p].user] = tx[p].loaded
      ]_vars

FiniteDocumentLimit(u) ==
    /\ subs[u] # NoRow
    /\ max_documents(subs[u].plan) \notin {Null, -1}

(* C28: document ceiling.  While the plan of a user has a finite           *)
(* max_documents limit L, the user owns at most L documents, whatever      *)
(* sequence and interleaving of plain creations and creations from an      *)
(* upload is served.                                                       *)
C28_DocumentCeiling ==
    \A u \in Users :
        FiniteDocumentLimit(u) => Cardinality(DocumentsOf(u)) <= max_documents(subs[u].plan)

(* C29: file-size ceiling.  Every Upload row has a size within the         *)
(* max_file_size_mb of the plan of the uploading user, unless that limit   *)
(* is -1.                                                                  *)
C29_FileSizeCeiling ==
    \A i \in DOMAIN uploads :
        LET u == uploads[i].user
        IN (subs[u] # NoRow /\ max_file_size_mb(subs[u].plan) # -1) =>
              uploads[i].file_size <= max_file_size_mb(subs[u].plan)

(* The plan of the owner of d has a collaborator limit, and d has reached it. *)
OwnerLimitReached(d) ==
    LET row == subs[documents[d].owner]
    IN /\ row # NoRow
       /\ max_collaborators(row.plan) # -1
       /\ Cardinality(CollaboratorsOf(d)) >= max_collaborators(row.plan)

(* C30: the owner's plan governs the collaborator check.  A request that   *)
(* runs check_collaborator_limit on a document is rejected exactly when    *)
(* the plan of the owner of the document has a max_collaborators other     *)
(* than -1 and the document has at least that many collaborators,          *)
(* whatever the plan of the user who sends the request; and the check      *)
(* changes no row.                                                         *)
C30_OwnerPlanGoverns ==
    [][ (response' # response /\ response'.status \in {"quota_exceeded", "comment", "collaborator"}) =>
           /\ response'.status = "quota_exceeded" <=> OwnerLimitReached(response'.document)
           /\ response'.status \in {"quota_exceeded", "comment"} =>
                 UNCHANGED <<subs, ledger, documents, uploads, collaborators>>
      ]_vars

(* A user on the unlimited plan comments on a document of an owner on the  *)
(* free plan that has its one collaborator: the request is rejected.       *)
C30_Witness ==
    /\ response = Outcome("quota_exceeded", "u2", "create_comment", 1)
    /\ subs["u2"].plan = "enterprise"
    /\ subs["u1"].plan = "free"
    /\ Cardinality(CollaboratorsOf(1)) = 1

(* C32: append-only ledger.  Every step of every operation leaves the     *)
(* committed ledger entries in place and unchanged (user, amount, type):   *)
(* the ledger after the step starts with the ledger before it.             *)
C32_LedgerAppendOnly ==
    [][ /\ Len(ledger') >= Len(ledger)
        /\ SubSeq(ledger', 1, Len(ledger)) = ledger
      ]_vars

(* A usage entry was committed, then a grant: the usage entry is still the *)
(* first row.                                                              *)
C32_Witness ==
    /\ Len(ledger) = 2
    /\ ledger[1].type = "usage"
    /\ ledger[2].type = "bonus"

(* C33: ledger signs.  Every ledger entry of type usage has a negative     *)
(* amount and every entry of another type a positive amount.               *)
C33_LedgerSigns ==
    \A i \in DOMAIN ledger :
        IF ledger[i].type = "usage" THEN ledger[i].amount < 0 ELSE ledger[i].amount > 0

GrantCommits(p) ==
    /\ pc[p] = "loaded"
    /\ tx[p].kind \in {"grant", "pack"}
    /\ pc'[p] = "idle"

(* C34: grants are not lost.  The commit of a grant of g > 0 credits       *)
(* (admin grant or credit pack) adds g to the total the subscription holds *)
(* at that moment, also when a consume was committed after the grant read  *)
(* the row: the debit of the consume is still in the total.                *)
C34_GrantKeepsDebit ==
    [][ \A p \in Procs :
          (GrantCommits(p) /\ tx[p].entries[1].amount > 0) =>
             Total(subs'[tx[p].user]) = Total(subs[tx[p].user]) + tx[p].entries[1].amount
      ]_vars

SameEntitlements(a, b) ==
    /\ a.plan = b.plan
    /\ a.status = b.status
    /\ a.credits_remaining = b.credits_remaining
    /\ a.credits_rollover = b.credits_rollover

PaidPlans == PlanNames \ {"free"}

(* C39: entitlements change on gateway confirmation only.  Every step of   *)
(* an upgrade or credit-purchase request leaves plan, status,              *)
(* credits_remaining and credits_rollover of every row and the ledger as   *)
(* they were; a row moves to a paid plan only in the commit of checkout    *)
(* completed, and purchased credits are added only in the commit of        *)
(* one-time payment succeeded.                                             *)
C39_EntitlementsOnConfirmation ==
    [][ /\ (\A p \in Procs : ~(pc[p] = "loaded" /\ pc'[p] = "idle")) =>
              /\ \A u \in Users : SameEntitlements(subs'[u], subs[u])
              /\ ledger' = ledger
        /\ \A u \in Users :
              (subs'[u].plan # subs[u].plan /\ subs'[u].plan \in PaidPlans) =>
                 \E p \in Procs : CheckoutCommits(p) /\ tx[p].user = u
        /\ \A u \in Users :
              (subs'[u].credits_remaining > subs[u].credits_remaining /\ subs'[u].plan = subs[u].plan) =>
                 \E p \in Procs : GrantCommits(p) /\ tx[p].kind = "pack" /\ tx[p].user = u
      ]_vars

(* The upgrade request was answered with a checkout session: the user has  *)
(* a gateway customer and is still on the free plan with 20 credits.       *)
C39_Witness ==
    /\ response = [status |-> "setup", user |-> "u1", endpoint |-> "upgrade", customer |-> "cus_1"]
    /\ subs["u1"] = Row("free", "active", CreditsPerMonth("free"), 0, "cus_1", NoId)
    /\ ledger = << >>

(* The operation has an active cost row and the row holds at least its cost. *)
Affords(row, op) ==
    /\ ActiveCost(costs, op) # {}
    /\ row # NoRow
    /\ Total(row) >= One(ActiveCost(costs, op)).cost

FromUploadInserts(p) == pc[p] = "creating" /\ tx[p].kind = "from_upload" /\ pc'[p] = "idle"

ProcessingStarts(p) == pc[p] # "processing" /\ pc'[p] = "processing"

(* C31: metered operations are gated.  An AI suggestion is generated, a    *)
(* document is created from an upload and a file processing run starts     *)
(* only in a request that consumed the cost of the operation: the          *)
(* operation has an active cost, the user held at least that cost when the *)
(* request read the balance, and the processing run starts at the commit   *)
(* of the debit.                                                           *)
C31_MeteredGated ==
    [][ /\ (response' # response /\ response'.status = "suggestions") =>
              Affords(subs[response'.user], "ai_suggestion")
        /\ \A p \in Procs :
              /\ FromUploadInserts(p) => Affords(tx[p].loaded, "document_creation")
              /\ ProcessingStarts(p) =>
                    /\ pc[p] = "charging"
                    /\ Total(tx[p].loaded) >= tx[p].amount
                    /\ ledger' = ledger \o << Entry(tx[p].user, -tx[p].amount, "usage", NoId) >>
      ]_vars

ProcessFails(p) ==
    /\ pc[p] = "processing"
    /\ pc'[p] = "idle"
    /\ response'.status = "processing_failed"

(* C36: debit first, no refund.  In process_file the processing starts at  *)
(* the commit of the consume, which appends the usage entry; when the      *)
(* processing fails the upload is left in status failed, the Subscription  *)
(* rows and the ledger are as the debit left them, and the usage entry of  *)
(* the request is still in the ledger.                                     *)
C36_DebitFirstNoRefund ==
    [][ \A p \in Procs :
          /\ ProcessingStarts(p) =>
                /\ pc[p] = "charging"
                /\ ledger' = ledger \o << Entry(tx[p].user, -tx[p].amount, "usage", NoId) >>
                /\ subs'[tx[p].user].credits_rollover = tx[p].local.credits_rollover
                   \/ subs'[tx[p].user].credits_remaining = tx[p].local.credits_remaining
          /\ ProcessFails(p) =>
                /\ uploads'[tx[p].upload].status = "failed"
                /\ subs' = subs
                /\ ledger' = ledger
                /\ \E i \in DOMAIN ledger' :
                      ledger'[i] = Entry(tx[p].user, -tx[p].amount, "usage", NoId)
      ]_vars

(* The run was paid with 5 of the 20 credits and failed: the upload is in  *)
(* status failed, the 5 credits are spent, the ledger has the one entry.   *)
C36_Witness ==
    /\ response = [status |-> "processing_failed", user |-> "u1", upload |-> 1]
    /\ uploads[1].status = "failed"
    /\ ledger = << Entry("u1", -5, "usage", NoId) >>
    /\ Total(subs["u1"]) = 15

ConsumeFails(p) ==
    \/ pc[p] = "marked" /\ ActiveCost(costs, "file_processing") = {}
    \/ pc[p] = "costed" /\ (subs[tx[p].user] = NoRow \/ Total(subs[tx[p].user]) < tx[p].amount)

(* C37: failed consume in process_file.  When the consume of a             *)
(* process_file request fails (no active cost row, no Subscription, or     *)
(* fewer credits than the cost), the request ends there: the upload is     *)
(* back in status pending with an error message, no Subscription row and   *)
(* no ledger entry has changed, and the processing does not start.         *)
C37_FailedConsumeReverts ==
    [][ \A p \in Procs :
          (ConsumeFails(p) /\ pc'[p] # pc[p]) =>
             /\ pc'[p] = "idle"
             /\ uploads'[tx[p].upload].status = "pending"
             /\ uploads'[tx[p].upload].error_message # NoId
             /\ subs' = subs
             /\ ledger' = ledger
      ]_vars

(* The user had 3 credits, the cost is 5: the upload is pending again with *)
(* the error recorded, and the 3 credits are still there.                  *)
C37_Witness ==
    /\ response.status = "insufficient"
    /\ uploads[1].status = "pending"
    /\ uploads[1].error_message = "insufficient"
    /\ Total(subs["u1"]) = 3
    /\ ledger = << >>

(* The requests that passed the status guard of the upload and have not    *)
(* ended.                                                                  *)
InFlight(id) ==
    {p \in Procs : pc[p] \in {"marked", "costed", "charging", "processing"} /\ tx[p].upload = id}

(* C38: one run per upload.  At most one process_file request at a time is *)
(* past the status guard of an upload, and no request is past the guard of *)
(* a completed upload.                                                     *)
C38_OneRunPerUpload ==
    \A id \in DOMAIN uploads :
        /\ Cardinality(InFlight(id)) <= 1
        /\ uploads[id].status = "completed" => InFlight(id) = {}

(* C35: one code slot per user.  Whatever generate-code and referral-stats *)
(* requests were served, in whatever interleaving, a user has at most one  *)
(* Referral row with an empty referee, and no two Referral rows of         *)
(* different referrers share a code.                                       *)
C35_OneCodeSlot ==
    /\ \A u \in Users : Cardinality(OwnRows(referrals, u)) <= 1
    /\ \A i, j \in DOMAIN referrals :
          referrals[i].referrer_id # referrals[j].referrer_id =>
             referrals[i].referral_code # referrals[j].referral_code

ScheduleCommits(p) ==
    /\ pc[p] = "loaded"
    /\ pc'[p] = "idle"
    /\ \/ tx[p].kind = "downgrade"
       \/ tx[p].kind = "cancel" /\ tx[p].local.plan # "free"

(* C40: scheduled downgrade.  A downgrade request or a non-immediate       *)
(* cancel on a paid plan, nothing else having changed the row meanwhile,   *)
(* sets the status to cancelled and leaves plan, credits and gateway ids   *)
(* as they were; and the status of a row on a paid plan that is cancelled  *)
(* stays cancelled until the row is moved to the free plan.                *)
C40_CancelledUntilFree ==
    [][ /\ \A p \in Procs :
              (ScheduleCommits(p) /\ tx[p].loaded = subs[tx[p].user]) =>
                 subs' = [subs EXCEPT ![tx[p].user].status = "cancelled"]
        /\ \A u \in Users :
              (subs[u].plan \in PaidPlans /\ subs[u].status = "cancelled"
                 /\ subs'[u].status # "cancelled") => subs'[u].plan = "free"
      ]_vars

====
